---- MODULE Spec2Model ----
(***************************************************************************)
(* Model of the AFE/GNSS instrument controller (src/controller.py): the    *)
(* NMEA-style packet codec, the command router with its five handler       *)
(* families, the time-sync state and the port-expander shadow registers.   *)
(*                                                                         *)
(* Python strings are TLA+ strings; Python's 0-based s[i] is Ch(s, i+1).   *)
(***************************************************************************)
EXTENDS Integers, Sequences, FiniteSets, TLC

(***************************************************************************)
(* Python string primitives, modelled by what they compute.                *)
(***************************************************************************)

\* With(e, LAMBDA v : body): body with v bound to the value of e (a local
\* variable of the code)
With(v, F(_)) == F(v)

\* s[i-1] of Python, 1-based here; "" when out of range
Ch(s, i) == IF 1 <= i /\ i <= Len(s) THEN SubSeq(s, i, i) ELSE ""

\* Python s[a:b] for 0 <= a <= b (the end is clamped to len(s))
Slice(s, a, b) == SubSeq(s, a + 1, IF b > Len(s) THEN Len(s) ELSE b)

\* Python s[a:]
SliceFrom(s, a) == SubSeq(s, a + 1, Len(s))

\* Python s.count(c) for a one-character c
Count(s, c) == Cardinality({i \in 1..Len(s) : Ch(s, i) = c})

\* index (1-based) of the first c in s, 0 when there is none
Find(s, c) ==
  IF \A i \in 1..Len(s) : Ch(s, i) # c THEN 0
  ELSE CHOOSE i \in 1..Len(s) : Ch(s, i) = c /\ \A j \in 1..(i - 1) : Ch(s, j) # c

\* Python s.split(c): the list of the pieces between the occurrences of c
RECURSIVE Split(_, _)
Split(s, c) ==
  LET k == Find(s, c)
  IN IF k = 0 THEN <<s>>
     ELSE <<SubSeq(s, 1, k - 1)>> \o Split(SubSeq(s, k + 1, Len(s)), c)

\* Python s.split(c, 1): at most one split, at the first c
Split1(s, c) ==
  LET k == Find(s, c)
  IN IF k = 0 THEN <<s>> ELSE <<SubSeq(s, 1, k - 1), SubSeq(s, k + 1, Len(s))>>

\* Python sep.join(list)
RECURSIVE Join(_, _)
Join(list, sep) ==
  IF Len(list) = 0 THEN ""
  ELSE IF Len(list) = 1 THEN list[1]
  ELSE list[1] \o sep \o Join(Tail(list), sep)

\* Python list[a:] on a list (0-based a)
ListFrom(list, a) == SubSeq(list, a + 1, Len(list))

\* Python s.strip(chars): drop leading and trailing characters that are in chars
RECURSIVE LStrip(_, _)
LStrip(s, chars) ==
  IF Len(s) > 0 /\ Ch(s, 1) \in chars THEN LStrip(SubSeq(s, 2, Len(s)), chars) ELSE s

RECURSIVE RStrip(_, _)
RStrip(s, chars) ==
  IF Len(s) > 0 /\ Ch(s, Len(s)) \in chars THEN RStrip(SubSeq(s, 1, Len(s) - 1), chars) ELSE s

Strip(s, chars) == RStrip(LStrip(s, chars), chars)

\* the characters str.strip() and int() treat as white space
WhiteSpace == {" ", "\t", "\r", "\n"}

DecDigits == "0123456789"
HexDigitsUpper == "0123456789ABCDEF"
HexDigitsLower == "0123456789abcdef"

IsDecDigit(c) == \E d \in 1..10 : Ch(DecDigits, d) = c
DecVal(c) == (CHOOSE d \in 1..10 : Ch(DecDigits, d) = c) - 1

IsHexDigit(c) == \E d \in 1..16 : Ch(HexDigitsUpper, d) = c \/ Ch(HexDigitsLower, d) = c
HexVal(c) == (CHOOSE d \in 1..16 : Ch(HexDigitsUpper, d) = c \/ Ch(HexDigitsLower, d) = c) - 1

\* value of a run of digits in the given base
RECURSIVE DigitsVal(_, _)
DigitsVal(s, base) ==
  IF Len(s) = 0 THEN 0
  ELSE DigitsVal(SubSeq(s, 1, Len(s) - 1), base) * base
       + (IF base = 16 THEN HexVal(Ch(s, Len(s))) ELSE DecVal(Ch(s, Len(s))))

\* the sign and the magnitude part of a numeral, after white space is stripped
NumBody(s) ==
  LET t == Strip(s, WhiteSpace)
  IN IF Len(t) > 0 /\ Ch(t, 1) \in {"+", "-"} THEN SubSeq(t, 2, Len(t)) ELSE t

NumNeg(s) ==
  LET t == Strip(s, WhiteSpace) IN Len(t) > 0 /\ Ch(t, 1) = "-"

\* Python int(s): white space stripped, optional sign, one or more decimal digits.
\* IntOk is FALSE where int(s) raises ValueError.
IntOk(s) ==
  LET b == NumBody(s) IN Len(b) > 0 /\ \A i \in 1..Len(b) : IsDecDigit(Ch(b, i))

IntVal(s) == IF NumNeg(s) THEN 0 - DigitsVal(NumBody(s), 10) ELSE DigitsVal(NumBody(s), 10)

\* Python int(s, 16): white space stripped, optional sign, optional 0x/0X
\* prefix, one or more hex digits of either case.
HexBody(s) ==
  LET b == NumBody(s)
  IN IF Len(b) >= 2 /\ Ch(b, 1) = "0" /\ Ch(b, 2) \in {"x", "X"} THEN SubSeq(b, 3, Len(b)) ELSE b

Int16Ok(s) ==
  LET b == HexBody(s) IN Len(b) > 0 /\ \A i \in 1..Len(b) : IsHexDigit(Ch(b, i))

Int16Val(s) == IF NumNeg(s) THEN 0 - DigitsVal(HexBody(s), 16) ELSE DigitsVal(HexBody(s), 16)

\* Python "%d" % n and str(n) for an integer
RECURSIVE NatStr(_)
NatStr(n) ==
  IF n < 10 THEN Ch(DecDigits, n + 1)
  ELSE NatStr(n \div 10) \o Ch(DecDigits, (n % 10) + 1)

IntStr(n) == IF n < 0 THEN "-" \o NatStr(0 - n) ELSE NatStr(n)

\* Python hex(n).split('x')[1].upper() for n >= 0
RECURSIVE HexStr(_)
HexStr(n) ==
  IF n < 16 THEN Ch(HexDigitsUpper, n + 1)
  ELSE HexStr(n \div 16) \o Ch(HexDigitsUpper, (n % 16) + 1)

\* the printable ASCII characters of codes 32..95 and 97..126 (code 96, the
\* back quote, cannot be written in a string here and is never sent)
AsciiLow == " !\"#$%&'()*+,-./0123456789:;<=>?@ABCDEFGHIJKLMNOPQRSTUVWXYZ[\\]^_"
AsciiHigh == "abcdefghijklmnopqrstuvwxyz{|}~"

\* the code of every character that can occur, as a table
OrdTable ==
  [c \in ({Ch(AsciiLow, i) : i \in 1..Len(AsciiLow)}
           \cup {Ch(AsciiHigh, i) : i \in 1..Len(AsciiHigh)}
           \cup {"\r", "\n", "\t"}) |->
     IF c = "\r" THEN 13
     ELSE IF c = "\n" THEN 10
     ELSE IF c = "\t" THEN 9
     ELSE IF \E i \in 1..Len(AsciiLow) : Ch(AsciiLow, i) = c
     THEN 31 + (CHOOSE i \in 1..Len(AsciiLow) : Ch(AsciiLow, i) = c)
     ELSE 96 + (CHOOSE i \in 1..Len(AsciiHigh) : Ch(AsciiHigh, i) = c)]

\* Python ord(c)
Ord(c) == OrdTable[c]

(***************************************************************************)
(* Packet codec                                                            *)
(***************************************************************************)

\* a ^ b on non-negative integers
RECURSIVE xor(_, _)
xor(a, b) ==
  IF a = 0 THEN b
  ELSE IF b = 0 THEN a
  ELSE (((a % 2) + (b % 2)) % 2) + 2 * xor(a \div 2, b \div 2)

\* reduce(xor, (ord(s) for s in nmeadata), 0); xor is associative, so the
\* fold is computed by halves
RECURSIVE reduce(_)
reduce(nmeadata) ==
  IF Len(nmeadata) = 0 THEN 0
  ELSE IF Len(nmeadata) = 1 THEN xor(0, Ord(nmeadata))
  ELSE LET h == Len(nmeadata) \div 2
       IN xor(reduce(SubSeq(nmeadata, 1, h)), reduce(SubSeq(nmeadata, h + 1, Len(nmeadata))))

\* eval_packet(packet, gen_cksm_f): err_code 0 ok, -1 '$'/'*' counts differ,
\* -2 no leading '$', -3 checksum field not an integer in base 16, -4 checksum
\* differs.  raised: packet[0] on an empty packet raises IndexError.
\* With gen_cksm_f the declared field is never parsed or compared.
eval_packet(packet, gen_cksm_f) ==
  IF Len(packet) = 0
  THEN [raised |-> TRUE, err_code |-> 0, ascii_checksum |-> "", calculated_checksum |-> 0]
  ELSE IF Ch(packet, 1) # "$"
  THEN [raised |-> FALSE, err_code |-> -2, ascii_checksum |-> "", calculated_checksum |-> 0]
  ELSE IF Count(packet, "$") # Count(packet, "*")
  THEN [raised |-> FALSE, err_code |-> -1, ascii_checksum |-> "", calculated_checksum |-> 0]
  ELSE
    With(Split1(Strip(packet, {"$", "\n"}), "*"), LAMBDA parts :
      \* parts[1] is nmeadata, parts[2] is ascii_checksum
      IF (~gen_cksm_f) /\ ~Int16Ok(parts[2])
      THEN [raised |-> FALSE, err_code |-> -3, ascii_checksum |-> parts[2],
            calculated_checksum |-> 0]
      ELSE With(reduce(parts[1]), LAMBDA calculated_checksum :
             [raised |-> FALSE,
              err_code |-> IF (~gen_cksm_f) /\ Int16Val(parts[2]) # calculated_checksum
                           THEN -4 ELSE 0,
              ascii_checksum |-> parts[2],
              calculated_checksum |-> calculated_checksum]))

\* add_cksum(pkt_in): (err_f, packet_out); evaluates the packet with
\* gen_cksm_f=True and appends the two-digit upper-case hex checksum
add_cksum(pkt_in) ==
  With(eval_packet(pkt_in, TRUE), LAMBDA ev :
    IF ev.raised THEN [raised |-> TRUE, err_f |-> FALSE, packet_out |-> ""]
    ELSE IF ev.err_code # 0 THEN [raised |-> FALSE, err_f |-> TRUE, packet_out |-> ""]
    ELSE With(HexStr(ev.calculated_checksum), LAMBDA ck_split :
           [raised |-> FALSE, err_f |-> FALSE,
            packet_out |-> pkt_in \o (IF Len(ck_split) = 1 THEN "0" \o ck_split
                                      ELSE ck_split)]))

(***************************************************************************)
(* Program constants and boot defaults                                     *)
(***************************************************************************)

TSRC_NOTSET == 0
TSRC_GNSS == 1
TSRC_EXT == 2

TEPOCH_NOTSET == 0
TEPOCH_PPS == 1
TEPOCH_NMEA == 2
TEPOCH_IMM == 3

TELEM_UPD_DEF == 1
MAG_UPD_DEF == 1
IMU_UPD_DEF == 1

MAG_CCR_MIN == 50
MAG_CCR_MAX == 400
MAG_CCR_DEF == 200
MAG_UPDR_MIN == 146
MAG_UPDR_MAX == 159
MAG_UPDR_DEF == 150

\* Python None where the program keeps "no timestamp yet" in an integer slot
None == -1

\* seconds between two satellite-driven settings of the RTC (forward_nmea)
NMEA_SYNC_SEC == 60

(***************************************************************************)
(* Time commands                                                           *)
(***************************************************************************)

\* params2string(theCmd): the parameters between the command word and '*'
params2string(theCmd) ==
  LET cmdNoCk == Split(theCmd, "*")
      paramList == Split(cmdNoCk[1], ",")
  IN Join(ListFrom(paramList, 1), ",")

\* PMITTE_to_ts(theStr): (err_code, theTs); -1 no parameter, -2 not an
\* integer, -3 negative
PMITTE_to_ts(theStr) ==
  With(Split(theStr, ","), LAMBDA theList :
    IF Len(theList) < 2 THEN [err_code |-> -1, theTs |-> -1]
    ELSE With(Split(theList[2], "*")[1], LAMBDA theItem :
           IF ~IntOk(theItem) THEN [err_code |-> -2, theTs |-> -1]
           ELSE With(IntVal(theItem), LAMBDA theTs :
                  [err_code |-> IF theTs < 0 THEN -3 ELSE 0, theTs |-> theTs])))

\* set_NMEA_acq(en_f): the new value of g_nmea_time_f
set_NMEA_acq(en_f) == en_f

\* setTimeFromTs(ts): sets the RTC to ts and marks it initialised; for the
\* epochs sent here datetime.fromtimestamp() succeeds, so err_f is False
setTimeFromTs(ts, T) ==
  [T EXCEPT !.err_f = FALSE, !.rtc = ts, !.g_rtc_init = TRUE, !.clockSet = "cmd"]

\* a handler that would forget to store the epoch it assigned
time_ret_epoch_lost(e, c, x, st) ==
  [raised |-> FALSE, err_code |-> e, cmd_code |-> c, extra |-> x,
   g_time_source |-> st.g_time_source, g_time_epoch |-> TEPOCH_NOTSET,
   g_nmea_time_f |-> st.g_nmea_time_f, rtc |-> st.rtc,
   g_rtc_init |-> st.g_rtc_init, clockSet |-> st.clockSet]

\* what handle_time_cmd returns, with the time state it leaves
time_ret(e, c, x, st) ==
  [raised |-> FALSE, err_code |-> e, cmd_code |-> c, extra |-> x,
   g_time_source |-> st.g_time_source, g_time_epoch |-> st.g_time_epoch,
   g_nmea_time_f |-> st.g_nmea_time_f, rtc |-> st.rtc,
   g_rtc_init |-> st.g_rtc_init, clockSet |-> st.clockSet]

\* the TEP / TEI branch of handle_time_cmd: source and epoch are assigned
\* first, then the epoch parameter is parsed; T1 is the state after the
\* assignments
time_set_ext(theCmd, cmd_code, T1) ==
  With(PMITTE_to_ts(theCmd), LAMBDA p :
    IF p.err_code # 0 THEN time_ret(p.err_code - 10, cmd_code, params2string(theCmd), T1)
    ELSE With(setTimeFromTs(p.theTs, T1), LAMBDA T2 :
           IF T2.err_f THEN time_ret(-20, cmd_code, params2string(theCmd), T2)
           ELSE time_ret(0, cmd_code, params2string(theCmd),
                         [T2 EXCEPT !.g_nmea_time_f = set_NMEA_acq(FALSE)])))

\* handle_time_cmd(theCmd) on the time state T0 (g_time_source, g_time_epoch,
\* g_nmea_time_f, rtc, g_rtc_init)
handle_time_cmd(theCmd, T0) ==
  With(T0 @@ [err_f |-> FALSE, clockSet |-> "none"], LAMBDA T :
  With(Slice(theCmd, 0, 8), LAMBDA word :
    IF add_cksum(theCmd).err_f THEN time_ret(-1, "XXX", "", T)
    ELSE IF word = "$PMITTSG"
    THEN time_ret(0, "TSG", "",
                  [T EXCEPT !.g_time_source = TSRC_GNSS, !.g_time_epoch = TEPOCH_NMEA,
                            !.g_nmea_time_f = set_NMEA_acq(TRUE)])
    ELSE IF word = "$PMITTEN"
    THEN time_ret(0, "TEN", "",
                  [T EXCEPT !.g_time_source = TSRC_GNSS, !.g_time_epoch = TEPOCH_NMEA,
                            !.g_nmea_time_f = set_NMEA_acq(TRUE)])
    ELSE IF word = "$PMITTSE"
    THEN time_ret(0, "TSE", "",
                  [T EXCEPT !.g_time_source = TSRC_EXT, !.g_time_epoch = TEPOCH_NOTSET])
    ELSE IF word = "$PMITTEP"
    THEN time_set_ext(theCmd, "TEP",
                      [T EXCEPT !.g_time_source = TSRC_EXT, !.g_time_epoch = TEPOCH_PPS])
    ELSE IF word = "$PMITTEI"
    THEN time_set_ext(theCmd, "TEI",
                      [T EXCEPT !.g_time_source = TSRC_EXT, !.g_time_epoch = TEPOCH_IMM])
    ELSE IF word = "$PMITTP?"
    THEN time_ret(0, "TP?", IntStr(T.g_time_source) \o "," \o IntStr(T.g_time_epoch), T)
    ELSE time_ret(-2, Slice(theCmd, 5, 8), "", T)))

(***************************************************************************)
(* Rate commands                                                           *)
(***************************************************************************)

\* PMITR_to_rate without its range test
PMITR_to_rate_unranged(theCmd) ==
  With(Split(Split(theCmd, "*")[1], ","), LAMBDA cc :
    IF Len(cc) < 2 THEN [err_code |-> -1, retval |-> None]
    ELSE IF ~IntOk(cc[2]) THEN [err_code |-> -1, retval |-> None]
    ELSE [err_code |-> 0, retval |-> IntVal(cc[2])])

\* PMITR_to_rate(theCmd): (err_code, retval); -1 not an integer (or no
\* parameter), -2 outside 0..60
PMITR_to_rate(theCmd) ==
  With(Split(Split(theCmd, "*")[1], ","), LAMBDA cc :
    IF Len(cc) < 2 THEN [err_code |-> -1, retval |-> None]
    ELSE IF ~IntOk(cc[2]) THEN [err_code |-> -1, retval |-> None]
    ELSE With(IntVal(cc[2]), LAMBDA num :
           IF num > -1 /\ num < 61 THEN [err_code |-> 0, retval |-> num]
           ELSE [err_code |-> -2, retval |-> None]))

rate_ret(e, c, x, st) ==
  [raised |-> FALSE, err_code |-> e, cmd_code |-> c, extra |-> x, rates |-> st]

\* one set branch of handle_rate_cmd: R1 is the rate state the branch leaves
\* when the parameter is good
rate_set(p, c, x, R, R1) ==
  rate_ret(p.err_code, c, x, IF p.err_code = 0 THEN R1 ELSE R)

\* handle_rate_cmd(theCmd) on the rate state R.  A framing error leaves
\* err_code unassigned, so the return statement raises UnboundLocalError.
\* The "M," and "A," branches assign g_mag_iupdr, which is not declared
\* global there: the assignment is to a local and no global changes.
handle_rate_cmd(theCmd, R) ==
  With(Slice(theCmd, 6, 8), LAMBDA sel :
  With(PMITR_to_rate(theCmd), LAMBDA p :
    IF add_cksum(theCmd).err_f
    THEN [raised |-> TRUE, err_code |-> 0, cmd_code |-> "RX", extra |-> "", rates |-> R]
    ELSE IF sel = "T,"
    THEN rate_set(p, "RT", "", R,
                  [R EXCEPT !.g_telem_updr = p.retval, !.g_telem_time = None])
    ELSE IF sel = "M,"
    THEN rate_set(p, "RM", "", R, [R EXCEPT !.g_mag_time = None])
    ELSE IF sel = "I,"
    THEN rate_set(p, "RI", "", R,
                  [R EXCEPT !.g_imu_updr = p.retval, !.g_imu_time = None])
    ELSE IF sel = "A,"
    THEN rate_set(p, "RA", params2string(theCmd), R,
                  [R EXCEPT !.g_telem_updr = p.retval, !.g_imu_updr = p.retval,
                            !.g_telem_time = None, !.g_mag_time = None,
                            !.g_imu_time = None])
    ELSE IF sel = "?*"
    THEN rate_ret(0, "R?",
                  IntStr(R.g_telem_updr) \o "," \o IntStr(R.g_mag_tupdr) \o ","
                    \o IntStr(R.g_imu_updr), R)
    ELSE rate_ret(-10, Slice(theCmd, 5, 7), "", R)))

(***************************************************************************)
(* Magnetometer commands                                                   *)
(***************************************************************************)

\* the range checks of PMITMGS_to_vals on the two integers
mag_range(ccr_int, updr_int) ==
  IF ~(ccr_int >= MAG_CCR_MIN /\ ccr_int <= MAG_CCR_MAX)
  THEN [err_code |-> -5, ccr_ret |-> None, updr_ret |-> None]
  ELSE IF ~(updr_int >= MAG_UPDR_MIN /\ updr_int <= MAG_UPDR_MAX)
  THEN [err_code |-> -6, ccr_ret |-> ccr_int, updr_ret |-> None]
  ELSE [err_code |-> 0, ccr_ret |-> ccr_int, updr_ret |-> updr_int]

\* PMITMGS_to_vals(theCmd): (err_code, ccr_ret, updr_ret)
PMITMGS_to_vals(theCmd) ==
  With(Split(Split(theCmd, "*")[1], ","), LAMBDA paramList :
    IF Len(paramList) < 3 THEN [err_code |-> -1, ccr_ret |-> None, updr_ret |-> None]
    ELSE IF ~IntOk(paramList[2])
    THEN [err_code |-> -2, ccr_ret |-> None, updr_ret |-> None]
    ELSE IF ~IntOk(paramList[3])
    THEN [err_code |-> -3, ccr_ret |-> None, updr_ret |-> None]
    ELSE mag_range(IntVal(paramList[2]), IntVal(paramList[3])))

\* init_mag(ccr, updr): three register writes, then the status read whose
\* outcome (magOk) the device decides
init_mag(ccr, updr, magOk) ==
  [err_f |-> ~magOk,
   writes |-> << [dev |-> "MAG",
                  bytes |-> <<4, (ccr \div 256) % 256, ccr % 256,
                              (ccr \div 256) % 256, ccr % 256,
                              (ccr \div 256) % 256, ccr % 256>>],
                 [dev |-> "MAG", bytes |-> <<11, updr>>],
                 [dev |-> "MAG", bytes |-> <<1, 113>>] >>]

\* set_mag_params(new_ccr, new_updr)
set_mag_params(new_ccr, new_updr) ==
  [g_mag_ccr |-> new_ccr, g_mag_iupdr |-> new_updr]

\* get_mag_params()
get_mag_params(M) ==
  <<M.g_mag_ccr, M.g_mag_iupdr>>

mag_ret(e, tlc, x, st, w) ==
  [raised |-> FALSE, err_code |-> e, cmd_code |-> tlc, extra |-> x,
   mag |-> st, writes |-> w]

\* the set branch of handle_mag_cmd, on the parsed values v
mag_set(theCmd, tlc, v, M, magOk) ==
  IF v.err_code # 0 THEN mag_ret(v.err_code, tlc, params2string(theCmd), M, << >>)
  ELSE With(init_mag(v.ccr_ret, v.updr_ret, magOk), LAMBDA im :
         IF ~im.err_f
         THEN mag_ret(0, tlc, params2string(theCmd),
                      set_mag_params(v.ccr_ret, v.updr_ret), im.writes)
         ELSE mag_ret(-20, tlc, params2string(theCmd), M, im.writes))

\* handle_mag_cmd(theCmd, vector) on the magnetometer state M
handle_mag_cmd(theCmd, vector, M, magOk) ==
  IF add_cksum(theCmd).err_f THEN mag_ret(-10, "MG" \o vector, "", M, << >>)
  ELSE IF vector = "S"
  THEN mag_set(theCmd, "MG" \o vector, PMITMGS_to_vals(theCmd), M, magOk)
  ELSE IF vector = "?"
  THEN mag_ret(0, "MG" \o vector,
               IntStr(get_mag_params(M)[1]) \o "," \o IntStr(get_mag_params(M)[2]),
               M, << >>)
  ELSE mag_ret(-30, "MG" \o vector, "", M, << >>)

(***************************************************************************)
(* Motion-sensor (IMU) commands                                            *)
(***************************************************************************)

CTRL1_XL == 16
CTRL2_G == 17
CTRL3_C == 18
CTRL5_C == 20
CTRL6_C == 21
CTRL7_G == 22
INT1_CTRL == 13

\* odrDictList: the output-data-rate table.  hz is kept in tenths of a hertz
\* (1.6 Hz is 16); fifo_acc / fifo_gyr record whether the entry is not None.
odrDictList ==
  << [name |-> "ODR_OFF",         cmd |-> 0,   hz |-> 0,     fifo_gyr |-> TRUE,  fifo_acc |-> TRUE],
     [name |-> "ACC_1_6_HZ_ULP",  cmd |-> 176, hz |-> 16,    fifo_gyr |-> FALSE, fifo_acc |-> TRUE],
     [name |-> "GYR_6_5_HZ_LP",   cmd |-> 11,  hz |-> 16,    fifo_gyr |-> TRUE,  fifo_acc |-> FALSE],
     [name |-> "ODR_12_5_HZ_LP",  cmd |-> 16,  hz |-> 125,   fifo_gyr |-> TRUE,  fifo_acc |-> TRUE],
     [name |-> "ODR_26_HZ_LP",    cmd |-> 32,  hz |-> 260,   fifo_gyr |-> TRUE,  fifo_acc |-> TRUE],
     [name |-> "ODR_52_HZ_NP",    cmd |-> 48,  hz |-> 520,   fifo_gyr |-> TRUE,  fifo_acc |-> TRUE],
     [name |-> "ODR_104_HZ_NP",   cmd |-> 64,  hz |-> 1040,  fifo_gyr |-> TRUE,  fifo_acc |-> TRUE],
     [name |-> "ODR_208_HZ_HP",   cmd |-> 80,  hz |-> 2080,  fifo_gyr |-> TRUE,  fifo_acc |-> TRUE],
     [name |-> "ODR_416_HZ_HP",   cmd |-> 96,  hz |-> 4160,  fifo_gyr |-> TRUE,  fifo_acc |-> TRUE],
     [name |-> "ODR_833_HZ_HP",   cmd |-> 112, hz |-> 8330,  fifo_gyr |-> TRUE,  fifo_acc |-> TRUE],
     [name |-> "ODR_1_66_KHZ_HP", cmd |-> 128, hz |-> 16600, fifo_gyr |-> TRUE,  fifo_acc |-> TRUE],
     [name |-> "ODR_3_33_KHZ_HP", cmd |-> 144, hz |-> 33300, fifo_gyr |-> TRUE,  fifo_acc |-> TRUE],
     [name |-> "ODR_6_66_KHZ_HP", cmd |-> 160, hz |-> 66600, fifo_gyr |-> TRUE,  fifo_acc |-> TRUE] >>

\* dictInList(odrDictList, "name", matchTag): index of the first entry with
\* that name, 0 for None
dictInList(matchTag) ==
  IF \E i \in 1..Len(odrDictList) : odrDictList[i].name = matchTag
  THEN CHOOSE i \in 1..Len(odrDictList) :
         /\ odrDictList[i].name = matchTag
         /\ \A j \in 1..(i - 1) : odrDictList[j].name # matchTag
  ELSE 0

IMU_ACC_DEF == "ODR_416_HZ_HP"
IMU_GYR_DEF == "ODR_416_HZ_HP"
IMU_ACC_HIPERF_DEF == FALSE
IMU_GYR_LOPWR_DEF == FALSE
IMU_ACC_LOPWR_DEF == FALSE

\* set_imu_params(...): binds all five globals, g_imu_acc_ulp included (the
\* module itself never binds that name: ulp_bound records whether it exists)
set_imu_params(accName, gyrName, acc_hiper_f, acc_ulp_f, gyr_lp_f) ==
  [g_imu_acc |-> accName, g_imu_gyr |-> gyrName, g_imu_acc_hipf |-> acc_hiper_f,
   g_imu_acc_ulp |-> acc_ulp_f, g_imu_gyr_lp |-> gyr_lp_f, ulp_bound |-> TRUE]

imu_vals(r, e, a, g, f1, f2, f3) ==
  [raised |-> r, err_code |-> e, accDict |-> a, gyrDict |-> g,
   ahiperf_bl |-> f1, aulp_bl |-> f2, glp_bl |-> f3]

\* PMITIMU_to_vals(theCmd): guards on fewer than 5 fields but reads the
\* sixth, so exactly 5 fields raise IndexError
PMITIMU_to_vals(theCmd) ==
  With(Split(Split(theCmd, "*")[1], ","), LAMBDA paramList :
    IF Len(paramList) < 5 THEN imu_vals(FALSE, -1, 0, 0, FALSE, FALSE, FALSE)
    ELSE IF Len(paramList) = 5 THEN imu_vals(TRUE, 0, 0, 0, FALSE, FALSE, FALSE)
    ELSE IF dictInList(paramList[2]) = 0
    THEN imu_vals(FALSE, -2, 0, 0, FALSE, FALSE, FALSE)
    ELSE IF dictInList(paramList[3]) = 0
    THEN imu_vals(FALSE, -3, 0, 0, FALSE, FALSE, FALSE)
    ELSE IF paramList[4] \notin {"0", "1"}
    THEN imu_vals(FALSE, -5, 0, 0, FALSE, FALSE, FALSE)
    ELSE IF paramList[5] \notin {"0", "1"}
    THEN imu_vals(FALSE, -6, 0, 0, FALSE, FALSE, FALSE)
    ELSE IF paramList[6] \notin {"0", "1"}
    THEN imu_vals(FALSE, -7, 0, 0, FALSE, FALSE, FALSE)
    ELSE imu_vals(FALSE, 0, dictInList(paramList[2]), dictInList(paramList[3]),
                  paramList[4] = "1", paramList[5] = "1", paramList[6] = "1"))

IMUw(reg, val) == [dev |-> "IMU", bytes |-> <<reg, val>>]

\* imu_mode_check(accDict, gyrDict, hiperf_acc_f, ulp_acc_f, lp_gyr_f): writes
\* the power-mode registers and, only when it reaches its end, stores the
\* configuration with set_imu_params
imu_mode_check(accDict, gyrDict, hiperf_acc_f, ulp_acc_f, lp_gyr_f, I) ==
  IF ~odrDictList[accDict].fifo_acc \/ ~odrDictList[gyrDict].fifo_gyr
  THEN [err_f |-> TRUE, imu |-> I, writes |-> << >>]
  ELSE IF hiperf_acc_f /\ ulp_acc_f
  THEN [err_f |-> TRUE, imu |-> I, writes |-> << >>]
  ELSE IF ulp_acc_f /\ odrDictList[accDict].hz > 2080
  THEN [err_f |-> TRUE, imu |-> I,
        writes |-> <<IMUw(CTRL6_C, IF hiperf_acc_f THEN 0 ELSE 16), IMUw(CTRL5_C, 128)>>]
  ELSE [err_f |-> FALSE,
        imu |-> set_imu_params(odrDictList[accDict].name, odrDictList[gyrDict].name,
                               hiperf_acc_f, ulp_acc_f, lp_gyr_f),
        writes |-> <<IMUw(CTRL6_C, IF hiperf_acc_f THEN 0 ELSE 16),
                     IMUw(CTRL5_C, IF ulp_acc_f THEN 128 ELSE 0),
                     IMUw(CTRL7_G, IF lp_gyr_f THEN 128 ELSE 0)>>]

\* the part of init_imu after the first mode check mc: on its failure the
\* check is repeated with all flags off (mc2) and the default ODRs written
init_imu_tail(accDict, gyrDict, mc, mc2, imuOk) ==
  IF mc.err_f
  THEN [any_err_f |-> ~imuOk, imu |-> mc2.imu,
        writes |-> <<IMUw(CTRL3_C, 68), IMUw(INT1_CTRL, 3)>> \o mc.writes \o mc2.writes
                     \o <<IMUw(CTRL1_XL, odrDictList[dictInList(IMU_ACC_DEF)].cmd),
                          IMUw(CTRL2_G, odrDictList[dictInList(IMU_GYR_DEF)].cmd)>>]
  ELSE [any_err_f |-> ~imuOk, imu |-> mc.imu,
        writes |-> <<IMUw(CTRL3_C, 68), IMUw(INT1_CTRL, 3)>> \o mc.writes
                     \o <<IMUw(CTRL1_XL, odrDictList[accDict].cmd),
                          IMUw(CTRL2_G, odrDictList[gyrDict].cmd)>>]

\* init_imu(accDict, gyrDict, fifo_f, hiperf_acc_f, ulp_acc_f, lp_gyr_f).
\* The bus log keeps the writes up to the two ODR registers; the writes that
\* follow (wake-up and embedded-function registers) do not depend on the power
\* flags and are left out of the log.  any_err_f is overwritten by the
\* readiness read after the mode check, so it is decided by the device alone
\* (imuOk).  fifo_f only selects whether init_fifo runs, whose error is part
\* of imuOk.
init_imu(accDict, gyrDict, fifo_f, hiperf_acc_f, ulp_acc_f, lp_gyr_f, I, useImu, imuOk) ==
  IF ~useImu THEN [any_err_f |-> FALSE, imu |-> I, writes |-> << >>]
  ELSE init_imu_tail(accDict, gyrDict,
                     imu_mode_check(accDict, gyrDict, hiperf_acc_f, ulp_acc_f, lp_gyr_f, I),
                     imu_mode_check(accDict, gyrDict, FALSE, FALSE, FALSE, I),
                     imuOk)

\* get_imu_params(): reading g_imu_acc_ulp before it was ever bound raises
\* NameError
get_imu_params(I) ==
  [raised |-> ~I.ulp_bound, x1 |-> I.g_imu_acc, x2 |-> I.g_imu_gyr,
   x3 |-> I.g_imu_acc_hipf, x4 |-> I.g_imu_acc_ulp, x5 |-> I.g_imu_gyr_lp]

BoolStr(b) == IF b THEN "1" ELSE "0"

imu_ret(r, e, tlc, x, st, w) ==
  [raised |-> r, err_code |-> e, cmd_code |-> tlc, extra |-> x, imu |-> st, writes |-> w]

\* the set branch of handle_imu_cmd after init_imu returned res
imu_set_done(theCmd, tlc, v, res) ==
  IF ~res.any_err_f
  THEN imu_ret(FALSE, 0, tlc, params2string(theCmd),
               set_imu_params(odrDictList[v.accDict].name, odrDictList[v.gyrDict].name,
                              v.ahiperf_bl, v.aulp_bl, v.glp_bl),
               res.writes)
  ELSE imu_ret(FALSE, -30, tlc, params2string(theCmd), res.imu, res.writes)

\* the set branch of handle_imu_cmd on the parsed values v.  init_imu is
\* called with the three flags in positions fifo_f, hiperf_acc_f, ulp_acc_f;
\* lp_gyr_f takes its default.
imu_set(theCmd, tlc, v, I, useImu, imuOk) ==
  IF v.raised THEN imu_ret(TRUE, 0, tlc, "", I, << >>)
  ELSE IF v.err_code # 0
  THEN imu_ret(FALSE, v.err_code, tlc, params2string(theCmd), I, << >>)
  ELSE imu_set_done(theCmd, tlc, v,
                    init_imu(v.accDict, v.gyrDict, v.ahiperf_bl, v.aulp_bl, v.glp_bl,
                             IMU_GYR_LOPWR_DEF, I, useImu, imuOk))

\* handle_imu_cmd(theCmd, vector) on the IMU state I.  A framing error
\* returns the unbound name queryStr (NameError).
handle_imu_cmd(theCmd, vector, I, useImu, imuOk) ==
  IF add_cksum(theCmd).err_f THEN imu_ret(TRUE, -10, "IM" \o vector, "", I, << >>)
  ELSE IF vector = "U"
  THEN imu_set(theCmd, "IM" \o vector, PMITIMU_to_vals(theCmd), I, useImu, imuOk)
  ELSE IF vector = "?"
  THEN With(get_imu_params(I), LAMBDA g :
         IF g.raised THEN imu_ret(TRUE, 0, "IM" \o vector, "", I, << >>)
         ELSE imu_ret(FALSE, 0, "IM" \o vector,
                      g.x1 \o "," \o g.x2 \o "," \o BoolStr(g.x3) \o ","
                        \o BoolStr(g.x4) \o "," \o BoolStr(g.x5),
                      I, << >>))
  ELSE imu_ret(FALSE, -30, "IM" \o vector, "", I, << >>)

(***************************************************************************)
(* Port-expander (MAX) commands                                            *)
(***************************************************************************)

MAX_MISC_DEF == <<1, 1, 1, 1, 0, 0, 0, 1, 1, 0>>
MAX_TX_DEF == <<0, 1, 1, 0, 0, 0, 0, 0, 0, 0>>
MAX_RX_DEF == <<0, 1, 1, 1, 0, 0, 0, 0, 0, 0>>

\* number of pins of one expander (maxLen of maxList2str, the 10 of
\* maxStr2SpiList)
MAX_PINS == 10

\* maxList2str(maxList) for a list of command tokens: at most 10 tokens, each
\* '1', '0', 'x' or 'X'; 'X' is rewritten 'x'
maxList2str(maxList) ==
  LET okTok(t) == t \in {"1", "0", "x", "X"}
      norm(t) == IF t = "X" THEN "x" ELSE t
  IN IF Len(maxList) > MAX_PINS \/ \E i \in 1..Len(maxList) : ~okTok(maxList[i])
     THEN [err_f |-> TRUE, maxStr |-> ""]
     ELSE [err_f |-> FALSE,
           maxStr |-> Join([i \in 1..Len(maxList) |-> norm(maxList[i])], ",")]

\* maxList2str(shadow) for a shadow register (a list of integers 0/1)
maxList2strBits(maxList) ==
  Join([i \in 1..Len(maxList) |-> IF maxList[i] = 1 THEN "1" ELSE "0"], ",")

theDummy == <<32, 0>>

\* the frame maxStr2SpiList builds for one pair: the pair itself on a single
\* chip; on a chain the pair in every slot when copy_f, else the pair in the
\* slot of chip dai_sel (chip 1 is clocked last) and the dummy in the others
SpiFrame(thePair, daisy, dai_sel, copy_f) ==
  IF daisy = 1 THEN thePair
  ELSE IF daisy = 2
  THEN (IF copy_f THEN thePair \o thePair
        ELSE IF dai_sel = 1 THEN theDummy \o thePair
        ELSE thePair \o theDummy)
  ELSE IF copy_f THEN thePair \o thePair \o thePair \o thePair
  ELSE IF dai_sel = 1 THEN theDummy \o theDummy \o theDummy \o thePair
  ELSE IF dai_sel = 2 THEN theDummy \o theDummy \o thePair \o theDummy
  ELSE IF dai_sel = 3 THEN theDummy \o thePair \o theDummy \o theDummy
  ELSE thePair \o theDummy \o theDummy \o theDummy

\* the while loop of maxStr2SpiList: one bus frame per '0' or '1' token, none
\* for any other token
RECURSIVE SpiFrames(_, _, _, _, _, _)
SpiFrames(scanList, ii, addr_ofs, daisy, dai_sel, copy_f) ==
  IF ii > Len(scanList) THEN << >>
  ELSE IF scanList[ii] \in {"0", "1"}
  THEN <<SpiFrame(<<(ii - 1) + addr_ofs, IF scanList[ii] = "1" THEN 1 ELSE 0>>,
                  daisy, dai_sel, copy_f)>>
       \o SpiFrames(scanList, ii + 1, addr_ofs, daisy, dai_sel, copy_f)
  ELSE SpiFrames(scanList, ii + 1, addr_ofs, daisy, dai_sel, copy_f)

\* the parameter tests of maxStr2SpiList: the tokens fit below pin 10, the
\* chain size is 1, 2 or 4 and the chip is one of the chain
SpiParamsOk(max_cnt, addr_ofs, daisy, dai_sel) ==
  /\ (max_cnt + addr_ofs) <= MAX_PINS
  /\ daisy \in {1, 2, 4}
  /\ IF daisy = 1 THEN dai_sel = 1 ELSE (dai_sel >= 1) /\ (dai_sel <= daisy)

\* maxStr2SpiList with the chips of a chain counted from the other end
maxStr2SpiList_reversed(str_in, addr_ofs, daisy, dai_sel, copy_f) ==
  IF ~SpiParamsOk(Len(Split(str_in, ",")), addr_ofs, daisy, dai_sel)
  THEN [err_f |-> TRUE, byteList |-> << >>]
  ELSE [err_f |-> FALSE,
        byteList |-> SpiFrames(Split(str_in, ","), 1, addr_ofs, daisy,
                               (daisy - dai_sel) + 1, copy_f)]

\* maxStr2SpiList(str_in, addr_ofs, daisy, dai_sel, copy_f): (err_f, byteList)
maxStr2SpiList(str_in, addr_ofs, daisy, dai_sel, copy_f) ==
  IF ~SpiParamsOk(Len(Split(str_in, ",")), addr_ofs, daisy, dai_sel)
  THEN [err_f |-> TRUE, byteList |-> << >>]
  ELSE [err_f |-> FALSE,
        byteList |-> SpiFrames(Split(str_in, ","), 1, addr_ofs, daisy, dai_sel, copy_f)]

\* updateShadowMax(offset, srcList, dstList): stores int(token) pin by pin;
\* int('x') raises ValueError after the earlier pins were stored.  stop is the
\* position of the first token int() refuses (one past the end when none).
shadow_upto(offset, srcList, dstList, stop) ==
  [raised |-> stop <= Len(srcList),
   dstList |-> [k \in 1..Len(dstList) |->
                  IF k - offset >= 1 /\ k - offset < stop
                  THEN IntVal(srcList[k - offset]) ELSE dstList[k]]]

updateShadowMax(offset, srcList, dstList) ==
  shadow_upto(offset, srcList, dstList,
              IF \A i \in 1..Len(srcList) : IntOk(srcList[i]) THEN Len(srcList) + 1
              ELSE CHOOSE i \in 1..Len(srcList) :
                     /\ ~IntOk(srcList[i])
                     /\ \A j \in 1..(i - 1) : IntOk(srcList[j]))

\* writeMax(theCtl, theCS, theByteList): no error handling; when the bus
\* refuses the transfer (busOk false) the first write raises
writeMax(dev, theByteList, busOk) ==
  IF busOk \/ Len(theByteList) = 0
  THEN [raised |-> FALSE,
        writes |-> [i \in 1..Len(theByteList) |-> [dev |-> dev, bytes |-> theByteList[i]]]]
  ELSE [raised |-> TRUE, writes |-> << >>]

max_ret(r, e, tlc, x, st, w) ==
  [raised |-> r, err_code |-> e, cmd_code |-> tlc, extra |-> x, shdw |-> st, writes |-> w]

\* the end of a set branch: the shadow register is updated (us), then the
\* frames are written (wm)
max_commit(t, queryStr, S, us, wm) ==
  IF us.raised THEN max_ret(TRUE, 0, t.tlc, queryStr, [S EXCEPT ![t.reg] = us.dstList], << >>)
  ELSE IF wm.raised
  THEN max_ret(TRUE, 0, t.tlc, queryStr, [S EXCEPT ![t.reg] = us.dstList], << >>)
  ELSE max_ret(FALSE, 0, t.tlc, queryStr, [S EXCEPT ![t.reg] = us.dstList], wm.writes)

\* a set branch once the start index is known to be in 0..9: err_f of
\* maxList2str or maxStr2SpiList skips the update and the write but leaves
\* err_code 0
max_apply(t, paramList, addr_ofs, ml, S, busOk) ==
  IF ml.err_f THEN max_ret(FALSE, 0, t.tlc, Join(ListFrom(paramList, 1), ","), S, << >>)
  ELSE With(maxStr2SpiList(ml.maxStr, addr_ofs, t.daisy, t.dai_sel, FALSE), LAMBDA sl :
         IF sl.err_f
         THEN max_ret(FALSE, 0, t.tlc, Join(ListFrom(paramList, 1), ","), S, << >>)
         ELSE max_commit(t, Join(ListFrom(paramList, 1), ","), S,
                         updateShadowMax(addr_ofs, ListFrom(paramList, 2), S[t.reg]),
                         writeMax(t.dev, sl.byteList, busOk)))

\* the set branches of handle_max_cmd share this body; t names the response
\* code, the shadow register, the bus chain and the place in the chain.  A
\* start index outside 0..9 reaches a print of the unbound name index
\* (NameError).
max_set(t, paramList, S, busOk) ==
  IF Len(paramList) < 3
  THEN max_ret(FALSE, -1, t.tlc, Join(ListFrom(paramList, 1), ","), S, << >>)
  ELSE IF ~IntOk(paramList[2])
  THEN max_ret(FALSE, -2, t.tlc, Join(ListFrom(paramList, 1), ","), S, << >>)
  ELSE With(IntVal(paramList[2]), LAMBDA addr_ofs :
         IF addr_ofs < 0 \/ addr_ofs > 9 THEN max_ret(TRUE, -3, t.tlc, "", S, << >>)
         ELSE max_apply(t, paramList, addr_ofs, maxList2str(ListFrom(paramList, 2)),
                        S, busOk))

\* the set vectors of handle_max_cmd (XR1 answers with the code RX1)
MaxSetVectors ==
  [v \in {"MAX,", "XT1,", "XT2,", "XR1,", "XR2,", "XR3,", "XR4,"} |->
     IF v = "MAX," THEN [tlc |-> "MAX", reg |-> "g_shdw_max_misc", dev |-> "MAX_MISC",
                         daisy |-> 1, dai_sel |-> 1]
     ELSE IF v = "XT1," THEN [tlc |-> "XT1", reg |-> "g_shdw_max_tx1", dev |-> "MAX_TX",
                              daisy |-> 2, dai_sel |-> 1]
     ELSE IF v = "XT2," THEN [tlc |-> "XT2", reg |-> "g_shdw_max_tx2", dev |-> "MAX_TX",
                              daisy |-> 2, dai_sel |-> 2]
     ELSE IF v = "XR1," THEN [tlc |-> "RX1", reg |-> "g_shdw_max_rx1", dev |-> "MAX_RX",
                              daisy |-> 4, dai_sel |-> 1]
     ELSE IF v = "XR2," THEN [tlc |-> "XR2", reg |-> "g_shdw_max_rx2", dev |-> "MAX_RX",
                              daisy |-> 4, dai_sel |-> 2]
     ELSE IF v = "XR3," THEN [tlc |-> "XR3", reg |-> "g_shdw_max_rx3", dev |-> "MAX_RX",
                              daisy |-> 4, dai_sel |-> 3]
     ELSE [tlc |-> "XR4", reg |-> "g_shdw_max_rx4", dev |-> "MAX_RX",
           daisy |-> 4, dai_sel |-> 4]]

\* the query vectors of handle_max_cmd
MaxQueryVectors ==
  [v \in {"MA?*", "XT1?", "XT2?", "XR1?", "XR2?", "XR3?", "XR4?"} |->
     IF v = "MA?*" THEN [tlc |-> "MA?", reg |-> "g_shdw_max_misc"]
     ELSE IF v = "XT1?" THEN [tlc |-> "XT1", reg |-> "g_shdw_max_tx1"]
     ELSE IF v = "XT2?" THEN [tlc |-> "XT2", reg |-> "g_shdw_max_tx2"]
     ELSE IF v = "XR1?" THEN [tlc |-> "XR1", reg |-> "g_shdw_max_rx1"]
     ELSE IF v = "XR2?" THEN [tlc |-> "XR2", reg |-> "g_shdw_max_rx2"]
     ELSE IF v = "XR3?" THEN [tlc |-> "XR3", reg |-> "g_shdw_max_rx3"]
     ELSE [tlc |-> "XR4", reg |-> "g_shdw_max_rx4"]]

\* handle_max_cmd(theCmd, vector) on the shadow registers S
handle_max_cmd(theCmd, vector, S, busOk) ==
  IF add_cksum(theCmd).err_f THEN max_ret(FALSE, -10, "", "", S, << >>)
  ELSE IF vector \in DOMAIN MaxSetVectors
  THEN max_set(MaxSetVectors[vector], Split(Split(theCmd, "*")[1], ","), S, busOk)
  ELSE IF vector \in DOMAIN MaxQueryVectors
  THEN max_ret(FALSE, 0, MaxQueryVectors[vector].tlc,
               maxList2strBits(S[MaxQueryVectors[vector].reg]), S, << >>)
  ELSE max_ret(FALSE, -30, vector, "", S, << >>)

(***************************************************************************)
(* Responses                                                               *)
(***************************************************************************)

\* send_NMEA_ok(cmd_code, extra): the text written to the host channel.  When
\* add_cksum refuses the draft, nmea_resp stays "" and only "\r\n" is written.
send_NMEA_ok(cmd_code, extra) ==
  add_cksum("$PMITSR," \o "0," \o cmd_code \o "," \o extra \o "*").packet_out \o "\r\n"

\* send_NMEA_err(cmd_code, err_code)
send_NMEA_err(cmd_code, err_code) ==
  add_cksum("$PMITSR," \o "-1," \o cmd_code \o "," \o IntStr(err_code) \o "*").packet_out
    \o "\r\n"

(***************************************************************************)
(* State                                                                   *)
(***************************************************************************)

VARIABLES
  mode,            \* the run_mode selected by my_main: 12 executive, 13 production
  raised,          \* an exception left my_main; code.py is about to call it again
  g_time_source, g_time_epoch, g_nmea_time_f,
  g_rtc_save, g_rtc_init, g_time_NMEA_f,
  rtc,             \* the reading of the real-time clock, time.time()
  now,             \* true time, which satellite sentences carry
  rates,           \* g_telem_updr, g_mag_tupdr, g_imu_updr and the g_*_time marks
  mag,             \* g_mag_ccr, g_mag_iupdr
  imu,             \* g_imu_acc, g_imu_gyr, g_imu_acc_hipf, g_imu_acc_ulp, g_imu_gyr_lp
  USE_IMU, USE_MAG, \* cleared by my_main when the sensor failed at boot
  shdw,            \* the seven g_shdw_max_* registers
  uart0_out,       \* what the last step wrote to the host channel
  spi_out,         \* the bus writes of the last step
  lastOp, lastLine, ret, clockSet,  \* the last step: kind, line, handler return, clock
  serviced,        \* how many command lines the last step serviced
  cal,             \* g_accOfs, g_gyrOfs, g_cal_acc_f, g_cal_gyr_f
  call,            \* the last direct call of another function: arguments and result
  codec            \* the last direct call of add_cksum or eval_packet and its result

vars == <<mode, raised, g_time_source, g_time_epoch, g_nmea_time_f, g_rtc_save,
          g_rtc_init, g_time_NMEA_f, rtc, now, rates, mag, imu, USE_IMU, USE_MAG,
          shdw, uart0_out, spi_out, lastOp, lastLine, ret, clockSet, serviced, cal, call, codec>>

\* bounds of the model
StartTime == 1000
BootClock == 400
TickSec == 30
MaxTicks == 2

NoRet == [err_code |-> 0, cmd_code |-> "", extra |-> ""]

\* no codec function was called directly yet
NoCall ==
  [op |-> "none", body |-> "", field |-> "", packet |-> "", raised |-> FALSE,
   err_f |-> FALSE, err_code |-> 0, ascii_checksum |-> "", calculated_checksum |-> 0,
   packet_out |-> ""]

ShadowDefaults ==
  [g_shdw_max_misc |-> MAX_MISC_DEF,
   g_shdw_max_tx1 |-> MAX_TX_DEF, g_shdw_max_tx2 |-> MAX_TX_DEF,
   g_shdw_max_rx1 |-> MAX_RX_DEF, g_shdw_max_rx2 |-> MAX_RX_DEF,
   g_shdw_max_rx3 |-> MAX_RX_DEF, g_shdw_max_rx4 |-> MAX_RX_DEF]

\* module-level IMU globals: g_imu_acc_ulp is not among them
ImuModuleLevel ==
  [g_imu_acc |-> IMU_ACC_DEF, g_imu_gyr |-> IMU_GYR_DEF,
   g_imu_acc_hipf |-> IMU_ACC_HIPERF_DEF, g_imu_acc_ulp |-> FALSE,
   g_imu_gyr_lp |-> IMU_GYR_LOPWR_DEF, ulp_bound |-> FALSE]

\* init_all()'s IMU part: the identity read (idOk) guards init_imu, which
\* stores the defaults through imu_mode_check; my_main clears USE_IMU when
\* the identity read or the readiness read fails
boot_imu(I, useImu, idOk, rdyOk) ==
  IF ~idOk THEN [imu |-> I, USE_IMU |-> FALSE]
  ELSE [imu |-> init_imu(dictInList(IMU_ACC_DEF), dictInList(IMU_GYR_DEF), TRUE,
                         IMU_ACC_HIPERF_DEF, IMU_ACC_LOPWR_DEF, IMU_GYR_LOPWR_DEF,
                         I, useImu, rdyOk).imu,
        USE_IMU |-> useImu /\ rdyOk]

\* my_main clears USE_MAG when init_all reports a magnetometer error
boot_mag(useMag, magOk) == useMag /\ magOk

Init ==
  /\ mode \in {12, 13}
  /\ raised = FALSE
  /\ g_time_source = TSRC_GNSS
  /\ g_time_epoch = TEPOCH_NMEA
  /\ g_nmea_time_f = TRUE
  /\ g_rtc_save = 0
  /\ g_rtc_init = FALSE
  /\ g_time_NMEA_f = FALSE
  /\ rtc = BootClock
  /\ now = StartTime
  /\ rates = [g_telem_updr |-> TELEM_UPD_DEF, g_mag_tupdr |-> MAG_UPD_DEF,
              g_imu_updr |-> IMU_UPD_DEF, g_telem_time |-> None,
              g_mag_time |-> None, g_imu_time |-> None]
  /\ mag = [g_mag_ccr |-> MAG_CCR_DEF, g_mag_iupdr |-> MAG_UPDR_DEF]
  /\ \E idOk \in BOOLEAN, rdyOk \in BOOLEAN :
       \E b \in {boot_imu(ImuModuleLevel, TRUE, idOk, rdyOk)} :
         /\ imu = b.imu
         /\ USE_IMU = b.USE_IMU
  /\ \E magOk \in BOOLEAN : USE_MAG = boot_mag(TRUE, magOk)
  /\ shdw = ShadowDefaults
  /\ uart0_out = << >>
  /\ spi_out = << >>
  /\ codec = NoCall
  /\ call = [fn |-> "none"]
  /\ cal = [g_accOfs |-> <<0, 0, 0>>, g_gyrOfs |-> <<0, 0, 0>>,
            g_cal_acc_f |-> FALSE, g_cal_gyr_f |-> FALSE]
  /\ serviced = 0
  /\ lastOp = "boot"
  /\ lastLine = ""
  /\ ret = NoRet
  /\ clockSet = "none"

\* the globals as one record, for the handlers
Globals ==
  [g_time_source |-> g_time_source, g_time_epoch |-> g_time_epoch,
   g_nmea_time_f |-> g_nmea_time_f, rtc |-> rtc, g_rtc_init |-> g_rtc_init,
   rates |-> rates, mag |-> mag, imu |-> imu, shdw |-> shdw]

(***************************************************************************)
(* Command servicing                                                       *)
(***************************************************************************)

\* the command family the if/elif chain selects ("none": the final else)
route(lineStr) ==
  IF Slice(lineStr, 0, 6) = "$PMITT" THEN "time"
  ELSE IF Slice(lineStr, 0, 6) = "$PMITR" THEN "rate"
  ELSE IF Slice(lineStr, 0, 7) = "$PMITMG" THEN "mag"
  ELSE IF Slice(lineStr, 0, 7) = "$PMITIM" THEN "imu"
  ELSE IF Slice(lineStr, 0, 6) \in {"$PMITM", "$PMITX"} THEN "max"
  ELSE "none"

\* what one branch of the chain did: the handler's return h, the globals
\* after it, the bus writes, whether the clock was set, and whether an
\* exception left the branch
branch(fam, r, h, G1, w, cs) ==
  [family |-> fam, raised |-> r,
   err_code |-> h.err_code, cmd_code |-> h.cmd_code, extra |-> h.extra,
   G |-> G1, writes |-> w, clockSet |-> cs]

time_branch(G, h) ==
  branch("time", FALSE, h,
         [G EXCEPT !.g_time_source = h.g_time_source, !.g_time_epoch = h.g_time_epoch,
                   !.g_nmea_time_f = h.g_nmea_time_f, !.rtc = h.rtc,
                   !.g_rtc_init = h.g_rtc_init],
         << >>, h.clockSet)

rate_branch(G, h) == branch("rate", h.raised, h, [G EXCEPT !.rates = h.rates], << >>, "none")

mag_branch(G, h) == branch("mag", FALSE, h, [G EXCEPT !.mag = h.mag], h.writes, "none")

imu_branch(G, h) == branch("imu", h.raised, h, [G EXCEPT !.imu = h.imu], h.writes, "none")

max_branch(G, h) == branch("max", h.raised, h, [G EXCEPT !.shdw = h.shdw], h.writes, "none")

\* the handler call of the selected branch.  lineStr[7] raises IndexError on
\* a 7-character magnetometer or IMU line.
dispatch(lineStr, G, useImu, devOk) ==
  With(route(lineStr), LAMBDA fam :
    IF fam = "time"
    THEN time_branch(G, handle_time_cmd(lineStr,
           [g_time_source |-> G.g_time_source, g_time_epoch |-> G.g_time_epoch,
            g_nmea_time_f |-> G.g_nmea_time_f, rtc |-> G.rtc,
            g_rtc_init |-> G.g_rtc_init]))
    ELSE IF fam = "rate" THEN rate_branch(G, handle_rate_cmd(lineStr, G.rates))
    ELSE IF fam = "none" THEN branch("none", FALSE, NoRet, G, << >>, "none")
    ELSE IF fam = "max"
    THEN max_branch(G, handle_max_cmd(lineStr, Slice(lineStr, 5, 9), G.shdw, devOk))
    ELSE IF Len(lineStr) < 8 THEN branch(fam, TRUE, NoRet, G, << >>, "none")
    ELSE IF fam = "mag"
    THEN mag_branch(G, handle_mag_cmd(lineStr, Ch(lineStr, 8), G.mag, devOk))
    ELSE imu_branch(G, handle_imu_cmd(lineStr, Ch(lineStr, 8), G.imu, useImu, devOk)))

\* the response the branch writes after its handler returned
Respond(h) ==
  IF h.err_code # 0 THEN send_NMEA_err(h.cmd_code, h.err_code)
  ELSE send_NMEA_ok(h.cmd_code, h.extra)

\* do_console: the text written to the host channel for one stripped line.
\* An undecoded line that starts $PMIT is answered with error -99.
console_out(lineStr, h) ==
  IF h.raised THEN << >>
  ELSE IF h.family # "none" THEN <<Respond(h)>>
  ELSE IF Slice(Split(lineStr, ",")[1], 0, 5) = "$PMIT"
  THEN <<send_NMEA_err(Slice(Split(lineStr, ",")[1], 5, 8), -99)>>
  ELSE << >>

\* the register dump of the production loop ($MAX?)
max_dump(S) ==
  With(<<S.g_shdw_max_misc, S.g_shdw_max_tx1, S.g_shdw_max_tx2, S.g_shdw_max_rx1,
         S.g_shdw_max_rx2, S.g_shdw_max_rx3, S.g_shdw_max_rx4>>, LAMBDA regs :
    add_cksum("$PMAX,"
              \o Join([i \in 1..7 |->
                         Join([k \in 1..Len(regs[i]) |->
                                 IF regs[i][k] = 1 THEN "1" ELSE "0"], "")], ",")
              \o "*").packet_out \o "\r\n")

\* run_mode 13: the text written for one line; an undecoded line is dropped
mode13_out(lineStr, h, S) ==
  IF Slice(lineStr, 0, 5) = "$MAX?" THEN <<max_dump(S)>>
  ELSE IF h.raised THEN << >>
  ELSE IF h.family # "none" THEN <<Respond(h)>>
  ELSE << >>

\* the effect of one serviced line on the globals and on the host channel
CommitVars(op, text, h, out, n) ==
  /\ serviced' = n
  /\ raised' = h.raised
  /\ g_time_source' = h.G.g_time_source
  /\ g_time_epoch' = h.G.g_time_epoch
  /\ g_nmea_time_f' = h.G.g_nmea_time_f
  /\ rtc' = h.G.rtc
  /\ g_rtc_init' = h.G.g_rtc_init
  /\ rates' = h.G.rates
  /\ mag' = h.G.mag
  /\ imu' = h.G.imu
  /\ shdw' = h.G.shdw
  /\ uart0_out' = out
  /\ spi_out' = h.writes
  /\ lastOp' = op
  /\ lastLine' = text
  /\ ret' = IF h.raised THEN NoRet
            ELSE [err_code |-> h.err_code, cmd_code |-> h.cmd_code, extra |-> h.extra]
  /\ clockSet' = h.clockSet

\* the effect of one serviced line on the state
Commit(op, text, h, out, n) ==
  /\ CommitVars(op, text, h, out, n)
  /\ UNCHANGED <<cal, call, codec, mode, g_rtc_save, g_time_NMEA_f, now, USE_IMU, USE_MAG>>

\* the outcomes of the bus transfers a line can cause: only the magnetometer,
\* IMU and switch-matrix branches reach a bus
DevOutcomes(lineStr) ==
  IF route(lineStr) \in {"mag", "imu", "max"} THEN BOOLEAN ELSE {TRUE}

\* do_console in the executive loop: one complete line arrived; the line is
\* stripped.  Empty lines and '#' comments are passed over.
do_console(Lines) ==
  /\ mode = 12
  /\ ~raised
  /\ \E text \in Lines :
      \E devOk \in DevOutcomes(text) :
       \E lineStr \in {Strip(text, WhiteSpace)} :
         \E skip \in {IF Len(lineStr) = 0 THEN TRUE ELSE Ch(lineStr, 1) = "#"} :
           \E h \in {dispatch(IF skip THEN "" ELSE lineStr, Globals, USE_IMU, devOk)} :
             Commit("console", text, h, IF skip THEN << >> ELSE console_out(lineStr, h), 1)

\* the production loop: uart0.readline() returned the line with its
\* terminator
run_mode_13(Lines) ==
  /\ mode = 13
  /\ ~raised
  /\ \E text \in Lines :
      \E devOk \in DevOutcomes(text) :
       \E lineStr \in {text \o "\r\n"} :
         \E h \in {dispatch(IF Slice(lineStr, 0, 5) = "$MAX?" THEN "" ELSE lineStr,
                            Globals, USE_IMU, devOk)} :
           Commit("mode13", text, h, mode13_out(lineStr, h, shdw), 1)

\* the read loop of do_console with the lines of q waiting on the host
\* channel: a read that returns a character never ends the loop, so line after
\* line is serviced until the channel is empty or a handler raises.  acc
\* collects the last handler return, the text written and the number of lines.
RECURSIVE console_run(_, _, _, _)
console_run(q, G, useImu, acc) ==
  IF Len(q) = 0 THEN acc
  ELSE
    With(Strip(Head(q), WhiteSpace), LAMBDA lineStr :
    With(dispatch(lineStr, G, useImu, TRUE), LAMBDA h :
    With([h |-> [h EXCEPT !.clockSet = IF h.clockSet # "none" THEN h.clockSet
                                       ELSE acc.h.clockSet],
          out |-> acc.out \o console_out(lineStr, h),
          n |-> acc.n + 1,
          text |-> Head(q)], LAMBDA acc1 :
      IF h.raised THEN acc1 ELSE console_run(Tail(q), h.G, useImu, acc1))))

\* do_console(5) as the executive loop calls it once per pass
console_pass(Queues) ==
  /\ mode = 12
  /\ ~raised
  /\ \E q \in Queues :
       \E a \in {console_run(q, Globals, USE_IMU,
                             [h |-> branch("none", FALSE, NoRet, Globals, << >>, "none"),
                              out |-> << >>, n |-> 0, text |-> ""])} :
         Commit("console_pass", a.text, a.h, a.out, a.n)

\* one pass of the production loop with the lines of q waiting: one
\* uart0.readline(), one line serviced
loop_pass_13(Queues) == run_mode_13({Head(q) : q \in Queues})

(***************************************************************************)
(* Satellite sentences                                                     *)
(***************************************************************************)

\* NMEA_to_RTC(nmea_str): whether the six time and date fields convert
NMEA_time_ok(nmea_str) ==
  With(Split(nmea_str, ","), LAMBDA aa :
    IF Len(aa) < 10 THEN FALSE
    ELSE /\ IntOk(Slice(aa[2], 0, 2)) /\ IntOk(Slice(aa[2], 2, 4))
         /\ IntOk(Slice(aa[2], 4, 6))
         /\ IntOk(Slice(aa[10], 0, 2)) /\ IntOk(Slice(aa[10], 2, 4))
         /\ IntOk(Slice(aa[10], 4, 6)))

\* the test of forward_nmea that lets a time sentence set the clock
nmea_sync_due(nmea_en_f, nowTime, rtc_save) ==
  nmea_en_f /\ ((rtc_save = 0) \/ ((nowTime - rtc_save) >= NMEA_SYNC_SEC))

\* forward_nmea in the executive loop, for one complete sentence (with its
\* terminator): a sentence that passes eval_packet is forwarded; a $GNRMC
\* sentence then goes to NMEA_to_RTC when the sync test passes.  The time the
\* sentence's fields denote (dtobj._mktime()) is the true time, now.
forward_nmea(Sentences) ==
  /\ mode = 12
  /\ ~raised
  /\ \E text \in Sentences :
       \E nmea_string \in {text \o "\r\n"} :
         \E fwd \in {eval_packet(nmea_string, FALSE).err_code = 0} :
           \E due \in {IF fwd /\ Slice(nmea_string, 0, 6) = "$GNRMC"
                       THEN nmea_sync_due(g_nmea_time_f, rtc, g_rtc_save) ELSE FALSE} :
             \E set \in {IF due THEN NMEA_time_ok(nmea_string) ELSE FALSE} :
               /\ uart0_out' = IF fwd THEN <<nmea_string>> ELSE << >>
               /\ rtc' = IF set THEN now ELSE rtc
               /\ g_rtc_save' = IF set THEN now ELSE g_rtc_save
               /\ g_rtc_init' = IF set THEN TRUE ELSE g_rtc_init
               /\ g_time_NMEA_f' = IF due THEN set ELSE g_time_NMEA_f
               /\ clockSet' = IF set THEN "fix" ELSE "none"
               /\ lastLine' = text
  /\ lastOp' = "fix"
  /\ spi_out' = << >>
  /\ ret' = NoRet
  /\ serviced' = 0
  /\ UNCHANGED <<cal, call, codec, mode, raised, g_time_source, g_time_epoch, g_nmea_time_f, now,
                 rates, mag, imu, USE_IMU, USE_MAG, shdw>>

(***************************************************************************)
(* Telemetry scheduler                                                     *)
(***************************************************************************)

\* the test of send_telem on one channel's time mark
telem_due(updr, mark, nowTime) ==
  IF mark = None THEN TRUE ELSE (nowTime - mark) >= updr

\* gen_*_pkt: prefix, time stamp and the sensor readings (left out here),
\* closed by add_cksum, written with a line end
telem_pkt(prefix, nowTime) ==
  add_cksum(prefix \o "," \o IntStr(nowTime) \o "*").packet_out \o "\r\n"

\* send_telem() at clock reading nowTime: the magnetometer channel, then
\* housekeeping, then the IMU channel (two sentences); a channel that is due
\* takes nowTime as its new mark
send_telem(R, useMag, useImu, nowTime) ==
  With((useMag /\ (R.g_mag_tupdr > 0)) /\ telem_due(R.g_mag_tupdr, R.g_mag_time, nowTime),
       LAMBDA magFire :
  With((R.g_telem_updr > 0) /\ telem_due(R.g_telem_updr, R.g_telem_time, nowTime),
       LAMBDA hkFire :
  With((useImu /\ (R.g_imu_updr > 0)) /\ telem_due(R.g_imu_updr, R.g_imu_time, nowTime),
       LAMBDA imuFire :
    [rates |-> [R EXCEPT !.g_mag_time = IF magFire THEN nowTime ELSE @,
                         !.g_telem_time = IF hkFire THEN nowTime ELSE @,
                         !.g_imu_time = IF imuFire THEN nowTime ELSE @],
     out |-> (IF magFire THEN <<telem_pkt("$PMITMAG", nowTime)>> ELSE << >>)
             \o (IF hkFire THEN <<telem_pkt("$PMITHK", nowTime)>> ELSE << >>)
             \o (IF imuFire THEN <<telem_pkt("$PMITACC", nowTime),
                                   telem_pkt("$PMITGYR", nowTime)>> ELSE << >>)])))

\* one invocation of the scheduler; pre is what the caller wrote before it
telem_step(op, text, pre) ==
  /\ \E t \in {send_telem(rates, USE_MAG, USE_IMU, rtc)} :
       /\ rates' = t.rates
       /\ uart0_out' = pre \o t.out
  /\ lastOp' = op
  /\ lastLine' = text
  /\ spi_out' = << >>
  /\ ret' = NoRet
  /\ clockSet' = "none"
  /\ serviced' = 0
  /\ UNCHANGED <<cal, call, codec, mode, raised, g_time_source, g_time_epoch, g_nmea_time_f,
                 g_rtc_save, g_rtc_init, g_time_NMEA_f, rtc, now, mag, imu,
                 USE_IMU, USE_MAG, shdw>>

\* the executive loop calls send_telem once per pass
executive_telem ==
  /\ mode = 12
  /\ ~raised
  /\ telem_step("telem", "", << >>)

\* the production loop calls send_telem when the host sends $TELEM?, after
\* the $PTEL marker sentence
telem_request_13 ==
  /\ mode = 13
  /\ ~raised
  /\ telem_step("telem", "$TELEM?", <<add_cksum("$PTEL*").packet_out \o "\r\n">>)

\* the production loop relays whatever the receiver sent between two marker
\* sentences; it never looks inside
relay_13(Sentences) ==
  /\ mode = 13
  /\ ~raised
  /\ \E text \in Sentences :
       /\ uart0_out' = <<add_cksum("$PGPS*").packet_out \o "\r\n", text \o "\r\n",
                         add_cksum("$PGPN*").packet_out \o "\r\n">>
       /\ lastLine' = text
  /\ lastOp' = "relay"
  /\ spi_out' = << >>
  /\ ret' = NoRet
  /\ clockSet' = "none"
  /\ serviced' = 0
  /\ UNCHANGED <<cal, call, codec, mode, raised, g_time_source, g_time_epoch, g_nmea_time_f,
                 g_rtc_save, g_rtc_init, g_time_NMEA_f, rtc, now, rates, mag, imu,
                 USE_IMU, USE_MAG, shdw>>

\* time passes: the clock and true time advance together
Tick ==
  /\ ~raised
  /\ now < StartTime + (MaxTicks * TickSec)
  /\ now' = now + TickSec
  /\ rtc' = rtc + TickSec
  /\ uart0_out' = << >>
  /\ spi_out' = << >>
  /\ lastOp' = "tick"
  /\ lastLine' = ""
  /\ ret' = NoRet
  /\ clockSet' = "none"
  /\ serviced' = 0
  /\ UNCHANGED <<cal, call, codec, mode, raised, g_time_source, g_time_epoch, g_nmea_time_f,
                 g_rtc_save, g_rtc_init, g_time_NMEA_f, rates, mag, imu, USE_IMU,
                 USE_MAG, shdw>>

\* code.py: after an exception my_main is called again.  Module globals keep
\* their values; init_all skips init_max (the chip selects exist) and runs
\* the IMU initialisation again.
Restart ==
  /\ raised
  /\ raised' = FALSE
  /\ \E idOk \in BOOLEAN, rdyOk \in BOOLEAN :
       \E b \in {boot_imu(imu, USE_IMU, idOk, rdyOk)} :
         /\ imu' = b.imu
         /\ USE_IMU' = b.USE_IMU
  /\ \E magOk \in BOOLEAN : USE_MAG' = boot_mag(USE_MAG, magOk)
  /\ uart0_out' = << >>
  /\ spi_out' = << >>
  /\ lastOp' = "restart"
  /\ lastLine' = ""
  /\ ret' = NoRet
  /\ clockSet' = "none"
  /\ serviced' = 0
  /\ UNCHANGED <<cal, call, codec, mode, g_time_source, g_time_epoch, g_nmea_time_f, g_rtc_save,
                 g_rtc_init, g_time_NMEA_f, rtc, now, rates, mag, shdw>>

(***************************************************************************)
(* The codec functions called on their own                                 *)
(***************************************************************************)

\* a direct call of maxStr2SpiList, as init_max and handle_max_cmd make it;
\* the arguments and the returned pair are recorded
call_maxStr2SpiList(Strs, Offsets, Chains, Chips) ==
  /\ call.fn = "none"
  /\ \E str_in \in Strs, addr_ofs \in Offsets, daisy \in Chains, dai_sel \in Chips,
        copy_f \in BOOLEAN :
       \E r \in {maxStr2SpiList(str_in, addr_ofs, daisy, dai_sel, copy_f)} :
         call' = [fn |-> "maxStr2SpiList", str_in |-> str_in, addr_ofs |-> addr_ofs,
                  daisy |-> daisy, dai_sel |-> dai_sel, copy_f |-> copy_f,
                  err_f |-> r.err_f, byteList |-> r.byteList]
  /\ UNCHANGED <<cal, codec, mode, raised, g_time_source, g_time_epoch, g_nmea_time_f,
                 g_rtc_save, g_rtc_init, g_time_NMEA_f, rtc, now, rates, mag, imu,
                 USE_IMU, USE_MAG, shdw, uart0_out, spi_out, lastOp, lastLine, ret,
                 clockSet, serviced>>

\* add_cksum('$' + body + '*').  The functions keep no state, so one run
\* makes one call and, after add_cksum, evaluates the sentence it built.
call_add_cksum(Bodies) ==
  /\ codec.op = "none"
  /\ \E b \in Bodies :
       \E r \in {add_cksum("$" \o b \o "*")} :
         codec' = [NoCall EXCEPT !.op = "add_cksum", !.body = b,
                                 !.packet = "$" \o b \o "*", !.raised = r.raised,
                                 !.err_f = r.err_f, !.packet_out = r.packet_out]
  /\ UNCHANGED <<mode, raised, g_time_source, g_time_epoch, g_nmea_time_f, g_rtc_save,
                 g_rtc_init, g_time_NMEA_f, rtc, now, rates, mag, imu, USE_IMU,
                 USE_MAG, shdw, uart0_out, spi_out, lastOp, lastLine, ret, clockSet,
                 serviced, call, cal>>

\* what eval_packet(packet) returned, for the sentence made of body and field
evaluated(op, b, f, packet) ==
  With(eval_packet(packet, FALSE), LAMBDA r :
    [NoCall EXCEPT !.op = op, !.body = b, !.field = f, !.packet = packet,
                   !.raised = r.raised, !.err_code = r.err_code,
                   !.ascii_checksum = r.ascii_checksum,
                   !.calculated_checksum = r.calculated_checksum])

\* eval_packet on the sentence add_cksum has just built
call_eval_built ==
  /\ codec.op = "add_cksum"
  /\ ~codec.raised
  /\ ~codec.err_f
  /\ codec' = evaluated("eval_built", codec.body,
                        SliceFrom(codec.packet_out, Len(codec.packet)), codec.packet_out)
  /\ UNCHANGED <<mode, raised, g_time_source, g_time_epoch, g_nmea_time_f, g_rtc_save,
                 g_rtc_init, g_time_NMEA_f, rtc, now, rates, mag, imu, USE_IMU,
                 USE_MAG, shdw, uart0_out, spi_out, lastOp, lastLine, ret, clockSet,
                 serviced, call, cal>>

\* eval_packet('$' + body + '*' + field)
call_eval_packet(Bodies, Fields) ==
  /\ codec.op = "none"
  /\ \E b \in Bodies, f \in Fields :
       codec' = evaluated("eval_packet", b, f, "$" \o b \o "*" \o f)
  /\ UNCHANGED <<mode, raised, g_time_source, g_time_epoch, g_nmea_time_f, g_rtc_save,
                 g_rtc_init, g_time_NMEA_f, rtc, now, rates, mag, imu, USE_IMU,
                 USE_MAG, shdw, uart0_out, spi_out, lastOp, lastLine, ret, clockSet,
                 serviced, call, cal>>

(***************************************************************************)
(* Inputs and specifications                                               *)
(***************************************************************************)

\* time commands: the five settings (epochs behind and ahead of true time),
\* the query, and malformed ones
TimeLines ==
  {"$PMITTSG*40", "$PMITTEN*5F", "$PMITTSE*42", "$PMITTEP,940*50",
   "$PMITTEI,940*49", "$PMITTP?*3B", "$PMITTEI*58", "$PMITTEP,abc*0D",
   "$PMITTXX*54", "$PMITTEI,1100*74"}

\* satellite sentences: a time fix, a fix without satellites, a damaged one
FixSentences ==
  {"$GNRMC,193409.00,A,4237.38614,N,07129.34227,W,0.001,,270325,,,A,V*07",
   "$GNRMC,,V,,,,,,,,,,N,V*37",
   "$GNRMC,193409.00,A,4237.38614,N,07129.34227,W,0.001,,270325,,,A,V*08"}

NextTime ==
  \/ do_console(TimeLines)
  \/ run_mode_13(TimeLines)
  \/ forward_nmea(FixSentences)
  \/ relay_13(FixSentences)
  \/ Tick

\* the boot at which init_all found both sensors: the time commands and the
\* satellite sentences touch neither sensor
InitSensorsFound == Init /\ USE_IMU /\ USE_MAG

SpecTime == InitSensorsFound /\ [][NextTime]_vars

\* command lines of every family: queries, settings whose declared checksum
\* is wrong, and lines with damaged framing or parameters
WrongChecksumLines ==
  {"$PMITTSE*00", "$PMITRT,5*00", "$PMITMGS,100,150*00",
   "$PMITIMU,ODR_208_HZ_HP,ODR_416_HZ_HP,0,1,0*00", "$PMITMAX,9,1*00"}

RouterLines ==
  WrongChecksumLines \cup
  {"$PMITTP?*3B", "$PMITRT,5", "$PMITMG?*35", "$PMITMG", "$PMITIM?*3B",
   "$PMITMA?*33", "$PMITMAX,10,1*64", "$PMITMB?*30", "$PMITZZ,1*1D"}

Next ==
  \/ do_console(RouterLines)
  \/ run_mode_13(RouterLines)
  \/ Restart

Spec == Init /\ [][Next]_vars

\* command lines waiting on the host channel when a loop pass begins: up to
\* MaxWaiting time and rate lines, one of them with damaged framing
MaxWaiting == 2

WaitingLines == {"$PMITTSE*42", "$PMITTP?*3B", "$PMITRT,60*2C", "$PMITR?*6D", "$PMITRT,5"}

WaitingQueues == UNION {[1..n -> WaitingLines] : n \in 1..MaxWaiting}

NextLoop ==
  \/ console_pass(WaitingQueues)
  \/ loop_pass_13(WaitingQueues)
  \/ Restart

SpecLoop == InitSensorsFound /\ [][NextLoop]_vars

\* IMU set commands with invalid parameters: three fields, five fields, an
\* unknown ODR label, an ODR the accelerometer does not have, a flag of 2,
\* and the high-performance flag together with the ultra-low-power flag
InvalidImuLines ==
  {"$PMITIMU,ODR_208_HZ_HP,ODR_416_HZ_HP*58",
   "$PMITIMU,ODR_208_HZ_HP,ODR_416_HZ_HP,0,0*58",
   "$PMITIMU,ODR_9_HZ,ODR_416_HZ_HP,0,0,0*00",
   "$PMITIMU,GYR_6_5_HZ_LP,ODR_416_HZ_HP,0,0,0*33",
   "$PMITIMU,ODR_208_HZ_HP,ODR_416_HZ_HP,2,0,0*46",
   "$PMITIMU,ODR_208_HZ_HP,ODR_416_HZ_HP,1,1,0*44"}

\* IMU set commands with valid parameters and the flags they give for the
\* accelerometer high-performance, accelerometer ultra-low-power and
\* gyroscope low-power modes
ImuSetCases ==
  {[line |-> "$PMITIMU,ODR_208_HZ_HP,ODR_416_HZ_HP,1,0,0*45", flags |-> <<TRUE, FALSE, FALSE>>],
   [line |-> "$PMITIMU,ODR_208_HZ_HP,ODR_416_HZ_HP,0,1,0*45", flags |-> <<FALSE, TRUE, FALSE>>],
   [line |-> "$PMITIMU,ODR_208_HZ_HP,ODR_416_HZ_HP,0,0,1*45", flags |-> <<FALSE, FALSE, TRUE>>]}

ImuLines ==
  InvalidImuLines \cup {c.line : c \in ImuSetCases}
    \cup {"$PMITIMU,ODR_208_HZ_HP,ODR_416_HZ_HP,0,0,0*44", "$PMITIM?*3B"}

NextImu ==
  \/ do_console(ImuLines)
  \/ run_mode_13(ImuLines)
  \/ Restart

SpecImu == Init /\ [][NextImu]_vars

\* sentence bodies: every string of at most MaxBodyLen characters over a
\* letter pair whose codes differ in the low bits, a separator and a line feed
MaxBodyLen == 2

BodyChars == {"A", "G", ",", "\n"}

CodecBodies ==
  {Join(f, "") : f \in UNION {[1..n -> BodyChars] : n \in 0..MaxBodyLen}}

\* declared checksum fields: every two-digit upper-case value up to
\* MaxDeclared, and fields of other shapes
MaxDeclared == 127

TwoDigit(n) == IF n < 16 THEN "0" \o HexStr(n) ELSE HexStr(n)

OddFields == {"6", "006", "+6", "0x6", "6d", "", "G1", "4 1", "41\r\n", "6\r\n"}

CodecFields == {TwoDigit(n) : n \in 0..MaxDeclared} \cup OddFields

NextCodec ==
  \/ call_add_cksum(CodecBodies)
  \/ call_eval_built
  \/ call_eval_packet(CodecBodies, CodecFields)

SpecCodec == InitSensorsFound /\ [][NextCodec]_vars

\* rate commands: per-channel and all-channel settings, the query, and
\* settings with a value that is out of range or not an integer
BadRateLines == {"$PMITRT,61*2D", "$PMITRI,abc*57", "$PMITRA,-1*23"}

RateLines ==
  BadRateLines \cup
  {"$PMITRT,60*2C", "$PMITRM,30*30", "$PMITRI,0*07", "$PMITRA,30*3C", "$PMITR?*6D"}

NextRate ==
  \/ do_console(RateLines)
  \/ run_mode_13(RateLines)
  \/ executive_telem
  \/ telem_request_13
  \/ Tick

SpecRate == Init /\ [][NextRate]_vars

\* switch-matrix lines: bit-set commands for four chips, queries, and
\* bit-set commands with invalid parameters
InvalidMaxLines == {"$PMITMAX,10,1*64", "$PMITMAX,8,1,1,1*5D", "$PMITMAX,0,2*56"}

MaxLines ==
  InvalidMaxLines \cup
  {"$PMITMAX,0,0,1,0,1,0,1,0,1,0,1*49", "$PMITMAX,9,1*5C", "$PMITXT1,2,1*3E",
   "$PMITXR2,5,1,1*21", "$PMITMAX,3,0,x,1*1E", "$PMITMA?*33", "$PMITXT1?*02"}

NextMax ==
  \/ do_console(MaxLines)
  \/ run_mode_13(MaxLines)
  \/ Restart

SpecMax == Init /\ [][NextMax]_vars

(***************************************************************************)
(* Properties of command servicing                                         *)
(***************************************************************************)

\* the steps that service a command line
ServiceOps == {"console", "mode13"}

\* s is a response sentence with the status that goes with error code e
IsResponse(s, e) ==
  IF e = 0 THEN Slice(s, 0, 10) = "$PMITSR,0," ELSE Slice(s, 0, 11) = "$PMITSR,-1,"

\* C1: servicing a line of a command family writes exactly one response
\* sentence (status 0 on success, -1 on failure) and raises no exception
C1_ExactlyOneResponse ==
  ((lastOp \in ServiceOps) /\ (route(lastLine) # "none"))
    => /\ ~raised
       /\ Len(uart0_out) = 1
       /\ IsResponse(uart0_out[1], ret.err_code)

\* C2: a command whose declared checksum differs from the XOR of its body is
\* rejected with a non-zero error code and changes no state
C2_WrongChecksumRejected ==
  [][((lastOp' \in ServiceOps) /\ (lastLine' \in WrongChecksumLines))
       => /\ ret'.err_code # 0
          /\ UNCHANGED <<g_time_source, g_time_epoch, g_nmea_time_f, rtc, rates, mag,
                         imu, shdw>>]_vars

(***************************************************************************)
(* Properties of the switch-matrix commands                                *)
(***************************************************************************)

\* what each bit-set line with 0/1 bits asks for: the register, the start
\* index and the bits
BitSetRequests ==
  [l \in {"$PMITMAX,0,0,1,0,1,0,1,0,1,0,1*49", "$PMITMAX,9,1*5C", "$PMITXT1,2,1*3E",
          "$PMITXR2,5,1,1*21", "$PMITMAX,8,1,1,1*5D"} |->
     IF l = "$PMITMAX,0,0,1,0,1,0,1,0,1,0,1*49"
     THEN [reg |-> "g_shdw_max_misc", s |-> 0, bits |-> <<0, 1, 0, 1, 0, 1, 0, 1, 0, 1>>]
     ELSE IF l = "$PMITMAX,9,1*5C"
     THEN [reg |-> "g_shdw_max_misc", s |-> 9, bits |-> <<1>>]
     ELSE IF l = "$PMITXT1,2,1*3E"
     THEN [reg |-> "g_shdw_max_tx1", s |-> 2, bits |-> <<1>>]
     ELSE IF l = "$PMITXR2,5,1,1*21"
     THEN [reg |-> "g_shdw_max_rx2", s |-> 5, bits |-> <<1, 1>>]
     ELSE [reg |-> "g_shdw_max_misc", s |-> 8, bits |-> <<1, 1, 1>>]]

\* register position k (from 0) of register r after request q on shadow S
Requested(q, S, r, k) ==
  IF (r = q.reg) /\ (k >= q.s) /\ (k < q.s + Len(q.bits))
  THEN q.bits[(k - q.s) + 1] ELSE S[r][k + 1]

\* C4: a successful bit-set command with start index s and n bits sets
\* exactly positions s..s+n-1 of its chip's shadow register to the given bits
\* and leaves every other position and every other register unchanged
C4_BitSetExactPositions ==
  [][((lastOp' \in ServiceOps) /\ (lastLine' \in DOMAIN BitSetRequests)
      /\ (~raised') /\ (ret'.err_code = 0))
       => \A r \in DOMAIN shdw : \A k \in 0..(MAX_PINS - 1) :
            shdw'[r][k + 1] = Requested(BitSetRequests[lastLine'], shdw, r, k)]_vars

\* C5: a shadow register changes only in a switch-matrix write command that
\* was accepted and whose bus write completed
C5_ShadowMirrorsWrites ==
  [][(shdw' # shdw)
       => /\ lastOp' \in ServiceOps
          /\ route(lastLine') = "max"
          /\ ~raised'
          /\ ret'.err_code = 0
          /\ spi_out' # << >>]_vars

\* C6: a bit-set command with invalid parameters is answered with a failure
\* response carrying a non-zero error code and writes nothing to the bus
C6_InvalidBitSetRejected ==
  ((lastOp \in ServiceOps) /\ (lastLine \in InvalidMaxLines))
    => /\ ~raised
       /\ ret.err_code # 0
       /\ Len(uart0_out) = 1
       /\ Slice(uart0_out[1], 0, 11) = "$PMITSR,-1,"
       /\ spi_out = << >>

(***************************************************************************)
(* Properties of the time commands and the satellite time fix              *)
(***************************************************************************)

\* the (source, epoch) pair each time-set command designates, as the query
\* reports it
Designated ==
  [TSG |-> "1,2", TEN |-> "1,2", TEP |-> "2,1", TEI |-> "2,3", TSE |-> "2,0"]

\* time-set lines whose epoch parameter is missing or not an integer
BadEpochLines == {"$PMITTEI*58", "$PMITTEP,abc*0D"}

\* C3: a time-set command (pulse or immediate) with a missing, non-integer
\* or negative epoch returns a failure code and leaves the time source, the
\* time epoch, the automatic-sync flag and the clock as they were
C3_BadEpochChangesNothing ==
  [][((lastOp' \in ServiceOps) /\ (lastLine' \in BadEpochLines))
       => /\ ret'.err_code # 0
          /\ UNCHANGED <<g_time_source, g_time_epoch, g_nmea_time_f, rtc>>]_vars

\* C7: a time-parameter query changes nothing, and right after a successful
\* time-set command it returns the pair that command designates
C7_QueryAfterSet ==
  [][((lastOp' \in ServiceOps) /\ (Slice(lastLine', 0, 8) = "$PMITTP?"))
       => /\ UNCHANGED <<g_time_source, g_time_epoch, g_nmea_time_f, rtc, g_rtc_save,
                         g_rtc_init, g_time_NMEA_f, rates, mag, imu, shdw>>
          /\ spi_out' = << >>
          /\ ((lastOp \in ServiceOps) /\ (ret.err_code = 0)
              /\ (ret.cmd_code \in {"TSG", "TEN", "TEP", "TEI", "TSE"}))
             => /\ ret'.err_code = 0
                /\ ret'.extra = Designated[ret.cmd_code]
                /\ Len(uart0_out') = 1
                /\ Slice(uart0_out'[1], 0, 18)
                     = "$PMITSR,0,TP?," \o Designated[ret.cmd_code] \o "*"]_vars

\* C7 witness: the query answered (external, immediate) after a successful
\* set-epoch-immediate command
C7_Witness ==
  /\ lastOp \in ServiceOps
  /\ ret.cmd_code = "TP?"
  /\ ret.extra = "2,3"
  /\ g_time_source = TSRC_EXT
  /\ g_time_epoch = TEPOCH_IMM
  /\ rtc < StartTime

\* C8: a satellite time fix sets the clock only when source = satellite and
\* epoch = satellite-time; in every other state it leaves the clock unchanged
C8_FixOnlyWhenSatellite ==
  [][((lastOp' = "fix")
      /\ ~((g_time_source = TSRC_GNSS) /\ (g_time_epoch = TEPOCH_NMEA)))
       => rtc' = rtc]_vars

\* C9: set-source-external performs no clock update, and afterwards (source
\* external, epoch unset) no satellite fix updates the clock
C9_ExternalWaitsForEpoch ==
  [][/\ ((lastOp' \in ServiceOps) /\ (Slice(lastLine', 0, 8) = "$PMITTSE"))
          => rtc' = rtc
     /\ ((lastOp' = "fix") /\ (g_time_source = TSRC_EXT)
         /\ (g_time_epoch = TEPOCH_NOTSET))
          => rtc' = rtc]_vars

\* the valid satellite time fix
ValidFix == "$GNRMC,193409.00,A,4237.38614,N,07129.34227,W,0.001,,270325,,,A,V*07"

\* C10: with satellite sync armed, a valid fix that arrives at least 60
\* seconds after the previous satellite-driven update (or when there was
\* none) sets the clock, whatever an external time-set command did in between
C10_ArmedFixAfterSixtySeconds ==
  [][((lastOp' = "fix") /\ (lastLine' = ValidFix)
      /\ (g_time_source = TSRC_GNSS) /\ (g_time_epoch = TEPOCH_NMEA)
      /\ ((g_rtc_save = 0) \/ ((now - g_rtc_save) >= NMEA_SYNC_SEC)))
       => (rtc' = now) /\ (clockSet' = "fix")]_vars

\* C11: between two consecutive satellite-driven clock updates at least 60
\* seconds elapse (g_rtc_save holds the true time of the previous one, 0
\* when there was none)
C11_SixtySecondsBetweenFixUpdates ==
  [][((lastOp' = "fix") /\ (clockSet' = "fix") /\ (g_rtc_save # 0))
       => (now - g_rtc_save) >= NMEA_SYNC_SEC]_vars


\* whether the text written to the host holds a sentence with this prefix
Fired(out, prefix) ==
  \E i \in 1..Len(out) : Slice(out[i], 0, Len(prefix)) = prefix

\* C12: on each invocation of the telemetry scheduler a channel fires iff its
\* interval is non-zero and either its time mark was reset or at least the
\* interval has passed since the mark; firing moves only that channel's mark
C12_ChannelFiresIffDue ==
  [][(lastOp' = "telem")
       => /\ Fired(uart0_out', "$PMITMAG")
               <=> ((rates.g_mag_tupdr > 0)
                    /\ telem_due(rates.g_mag_tupdr, rates.g_mag_time, rtc))
          /\ Fired(uart0_out', "$PMITHK")
               <=> ((rates.g_telem_updr > 0)
                    /\ telem_due(rates.g_telem_updr, rates.g_telem_time, rtc))
          /\ Fired(uart0_out', "$PMITACC")
               <=> ((rates.g_imu_updr > 0)
                    /\ telem_due(rates.g_imu_updr, rates.g_imu_time, rtc))
          /\ rates'.g_mag_time
               = (IF Fired(uart0_out', "$PMITMAG") THEN rtc ELSE rates.g_mag_time)
          /\ rates'.g_telem_time
               = (IF Fired(uart0_out', "$PMITHK") THEN rtc ELSE rates.g_telem_time)
          /\ rates'.g_imu_time
               = (IF Fired(uart0_out', "$PMITACC") THEN rtc ELSE rates.g_imu_time)]_vars


\* a step that serviced this line and answered it with success
Succeeded(text) ==
  /\ lastOp' \in ServiceOps
  /\ lastLine' = text
  /\ ~raised'
  /\ ret'.err_code = 0

\* C13: a rate-set for all channels with value r sets the housekeeping,
\* magnetometer and IMU intervals to r and resets the three time marks
C13_RateSetAllSetsAll ==
  [][Succeeded("$PMITRA,30*3C")
       => /\ rates'.g_telem_updr = 30
          /\ rates'.g_mag_tupdr = 30
          /\ rates'.g_imu_updr = 30
          /\ rates'.g_telem_time = None
          /\ rates'.g_mag_time = None
          /\ rates'.g_imu_time = None]_vars

\* the per-channel settings among the rate lines: the interval and the time
\* mark each one addresses, and its value
ChannelSets ==
  {[text |-> "$PMITRT,60*2C", updr |-> "g_telem_updr", mark |-> "g_telem_time", r |-> 60],
   [text |-> "$PMITRM,30*30", updr |-> "g_mag_tupdr", mark |-> "g_mag_time", r |-> 30],
   [text |-> "$PMITRI,0*07", updr |-> "g_imu_updr", mark |-> "g_imu_time", r |-> 0]}

\* C14: a successful per-channel rate-set with value r makes r the interval of
\* that channel, resets that channel's time mark and leaves the intervals and
\* marks of the other two channels as they were
C14_ChannelSetChangesOneChannel ==
  [][\A c \in ChannelSets :
       Succeeded(c.text)
         => /\ rates'[c.updr] = c.r
            /\ rates'[c.mark] = None
            /\ \A f \in (DOMAIN rates) \ {c.updr, c.mark} : rates'[f] = rates[f]]_vars


\* C15: every telemetry interval is an integer in 0..60 in every reachable
\* state, and a rate-set whose value is not an integer or is out of range is
\* answered with a failure code and changes no interval and no time mark
C15_IntervalsStayInRange ==
  /\ [](/\ rates.g_telem_updr \in 0..60
        /\ rates.g_mag_tupdr \in 0..60
        /\ rates.g_imu_updr \in 0..60)
  /\ [][((lastOp' \in ServiceOps) /\ (lastLine' \in BadRateLines))
          => /\ ~raised'
             /\ ret'.err_code < 0
             /\ Len(uart0_out') = 1
             /\ Slice(uart0_out'[1], 0, 11) = "$PMITSR,-1,"
             /\ rates' = rates]_vars

\* C15 witness: an out-of-range or non-integer rate-set was refused after an
\* earlier rate-set had changed the housekeeping interval and a channel had
\* fired
C15_Witness ==
  /\ lastOp \in ServiceOps
  /\ lastLine \in BadRateLines
  /\ ret.err_code \in {-1, -2}
  /\ rates.g_telem_updr = 60
  /\ rates.g_imu_time # None


\* C16: for every body, add_cksum('$' + body + '*') succeeds and appends the
\* two upper-case hex digits of the XOR of the body's character codes, and
\* eval_packet accepts the sentence, computed and declared checksum equal
C16_CodecRoundTrip ==
  /\ (codec.op = "add_cksum")
       => /\ ~codec.raised
          /\ ~codec.err_f
          /\ codec.packet_out = codec.packet \o TwoDigit(reduce(codec.body))
  /\ (codec.op = "eval_built")
       => /\ codec.err_code = 0
          /\ Int16Val(codec.ascii_checksum) = codec.calculated_checksum

\* C17: for a sentence with a leading '$', as many '$' as '*' and a checksum
\* field that reads as a base-16 number, eval_packet returns -4 iff the
\* declared value differs from the XOR of the body's character codes
C17_MismatchIffDeclaredDiffers ==
  ((codec.op = "eval_packet") /\ Int16Ok(codec.field))
    => ((codec.err_code = -4) <=> (Int16Val(codec.field) # reduce(codec.body)))

\* a field of exactly two hex digits
TwoHexDigits(f) == (Len(f) = 2) /\ IsHexDigit(Ch(f, 1)) /\ IsHexDigit(Ch(f, 2))

\* C18: eval_packet returns -3 whenever the field after '*' is not exactly
\* two hex digits
C18_NotTwoHexDigitsRejected ==
  ((codec.op = "eval_packet") /\ ~TwoHexDigits(codec.field))
    => (codec.err_code = -3)


\* lines with the protocol prefix that name no command: one outside every
\* family and one inside the switch-matrix family
UnknownVariantLines == {"$PMITZZ,1*1D", "$PMITMB?*30"}

\* C19: a line with the protocol prefix that matches no known command is
\* answered with one failure response, in the executive loop and in the
\* production loop alike
C19_UnknownVariantAnswered ==
  ((lastOp \in ServiceOps) /\ (lastLine \in UnknownVariantLines))
    => /\ ~raised
       /\ Len(uart0_out) = 1
       /\ Slice(uart0_out[1], 0, 11) = "$PMITSR,-1,"
       /\ eval_packet(uart0_out[1], FALSE).err_code = 0

\* s is $PMITSR,<status>,<command code>,<rest>*CC with a checksum that
\* validates and a command code of 2 or 3 characters
WellFormedResponse(s) ==
  /\ Slice(s, 0, 8) = "$PMITSR,"
  /\ eval_packet(s, FALSE).err_code = 0
  /\ Len(Split(s, ",")) >= 4
  /\ Split(s, ",")[2] \in {"0", "-1"}
  /\ Len(Split(s, ",")[3]) \in {2, 3}

\* C20: everything written to the host in answer to a command line, malformed
\* lines included, is a well-formed response sentence
C20_ResponsesWellFormed ==
  (lastOp \in ServiceOps)
    => \A i \in 1..Len(uart0_out) : WellFormedResponse(uart0_out[i])

(***************************************************************************)
(* Properties of the receiver relay and of the loops                       *)
(***************************************************************************)

\* the steps that pass receiver output to the host
RelayOps == {"fix", "relay"}

\* C21: receiver data is written to the host only when it passed the
\* per-sentence checksum validation, in the executive loop and in the
\* production loop
C21_RelayedSentencesValidated ==
  (lastOp \in RelayOps)
    => \A i \in 1..Len(uart0_out) :
         (uart0_out[i] = lastLine \o "\r\n")
           => (eval_packet(uart0_out[i], FALSE).err_code = 0)

\* C22: one pass of the loop services at most one command line, however many
\* lines are waiting on the host channel
C22_OneCommandPerPass ==
  serviced <= 1

\* C23: when the loop runs again after an uncaught fault, the time source,
\* epoch and sync flag, the telemetry intervals and time marks and the seven
\* shadow registers are at their boot defaults
C23_RestartRestoresDefaults ==
  (lastOp = "restart")
    => /\ g_time_source = TSRC_GNSS
       /\ g_time_epoch = TEPOCH_NMEA
       /\ g_nmea_time_f
       /\ rates = [g_telem_updr |-> TELEM_UPD_DEF, g_mag_tupdr |-> MAG_UPD_DEF,
                   g_imu_updr |-> IMU_UPD_DEF, g_telem_time |-> None,
                   g_mag_time |-> None, g_imu_time |-> None]
       /\ shdw = ShadowDefaults

(***************************************************************************)
(* Properties of the IMU commands                                          *)
(***************************************************************************)

\* C24: an IMU set command with invalid parameters is answered with a
\* failure response, writes nothing to the device and leaves the stored IMU
\* configuration as it was
C24_InvalidImuSetRejected ==
  [][((lastOp' \in ServiceOps) /\ (lastLine' \in InvalidImuLines))
       => /\ ~raised'
          /\ ret'.err_code # 0
          /\ Len(uart0_out') = 1
          /\ Slice(uart0_out'[1], 0, 11) = "$PMITSR,-1,"
          /\ spi_out' = << >>
          /\ imu' = imu]_vars

\* C25: a bit given as x is a don't-care: the command "$PMITMAX,3,0,x,1"
\* succeeds, sets position 3 to 0 and position 5 to 1, keeps position 4 and
\* everything else, and clocks one (address, value) pair for each of the two
\* bits that are set
C25_DontCareBitSkipped ==
  [][((lastOp' \in ServiceOps) /\ (lastLine' = "$PMITMAX,3,0,x,1*1E"))
       => /\ ~raised'
          /\ ret'.err_code = 0
          /\ shdw' = [shdw EXCEPT !.g_shdw_max_misc[4] = 0, !.g_shdw_max_misc[6] = 1]
          /\ spi_out' = <<[dev |-> "MAX_MISC", bytes |-> <<3, 0>>],
                          [dev |-> "MAX_MISC", bytes |-> <<5, 1>>]>>]_vars

\* ---- the bus frames of maxStr2SpiList ----
MaxTokens == 3
TokenChars == {"0", "1", "x"}
TokenStrs == {Join(f, ",") : f \in UNION {[1..n -> TokenChars] : n \in 1..MaxTokens}}
SpiOffsets == {0, 6, 8}
SpiChains == {1, 2, 3, 4}
SpiChips == 1..4
NextSpi == call_maxStr2SpiList(TokenStrs, SpiOffsets, SpiChains, SpiChips)
SpecSpi == Init /\ [][NextSpi]_vars

\* the positions of the '0' and '1' tokens of a token list, in order
RequestedBits(scanList) == SelectSeq([i \in 1..Len(scanList) |-> i],
                                     LAMBDA i : scanList[i] \in {"0", "1"})
\* the pair clocked in slot m of a frame
Slot(frame, m) == <<frame[(2 * m) - 1], frame[2 * m]>>
\* the pair requested by the token at position i
RealPair(scanList, i, addr_ofs) ==
  <<(i - 1) + addr_ofs, IF scanList[i] = "1" THEN 1 ELSE 0>>

\* C26: maxStr2SpiList yields one frame per requested bit; on a single chip the
\* frame is the (address, value) pair; on a chain of N chips the frame has N
\* slots, in broadcast mode all holding the pair, otherwise the pair in slot
\* N-k+1 for chip k and the no-op pair (32, 0) in every other slot
C26_FramePerRequestedBit ==
  ((call.fn = "maxStr2SpiList") /\ ~call.err_f) =>
    \E scanList \in {Split(call.str_in, ",")} :
      \E req \in {RequestedBits(scanList)} :
        /\ Len(call.byteList) = Len(req)
        /\ \A j \in 1..Len(req) :
             \E frame \in {call.byteList[j]}, thePair \in {RealPair(scanList, req[j], call.addr_ofs)} :
               /\ Len(frame) = 2 * call.daisy
               /\ \A m \in 1..call.daisy :
                    Slot(frame, m) =
                      IF (call.daisy = 1) \/ call.copy_f \/ (m = (call.daisy - call.dai_sel) + 1)
                      THEN thePair ELSE <<32, 0>>
\* chip 2 of a chain of four is sent a frame whose third slot holds the pair
C26_Witness ==
  /\ call.fn = "maxStr2SpiList"
  /\ ~call.err_f /\ ~call.copy_f
  /\ call.daisy = 4 /\ call.dai_sel = 2
  /\ call.str_in = "1,x,0" /\ call.addr_ofs = 6
  /\ call.byteList = << <<32, 0, 32, 0, 6, 1, 32, 0>>, <<32, 0, 32, 0, 8, 0, 32, 0>> >>

(***************************************************************************)
(* Calibration and motion engine.  A sample is the three 16-bit words the  *)
(* sensor delivers.  Readings are kept as integers in the unit             *)
(* 1/(16393*TareCnt) g for the accelerometer and 100/(11428*TareCnt) deg/s *)
(* for the gyroscope, so that the average of TareCnt readings is an        *)
(* integer; the code computes the same quantities as floats.               *)
(***************************************************************************)

\* the sample counts of the calls: tare_cnt and data_cnt
TareCnt == 2
DataCnt == 3

\* read_imu: 1 g = 16393 counts, 100 deg/s = 11428 counts
ONE_G_COUNTS == 16393
HUNDRED_DPS_COUNTS == 11428
\* ACC_MAX = 0.016 g and GYR_MAX = 0.20 deg/s, in thousandths
ACC_MAX == 16
GYR_MAX == 200
\* 1.0 g in the unit of the readings
ONE_G == ONE_G_COUNTS * TareCnt

AbsVal(v) == IF v < 0 THEN -v ELSE v

\* v > ACC_MAX for an accelerometer reading, v > GYR_MAX for a gyroscope one
OverMax(kind, v) ==
  IF kind = "acc" THEN (v * 1000) > (ACC_MAX * ONE_G_COUNTS * TareCnt)
  ELSE (v * (100000 \div GYR_MAX)) > (HUNDRED_DPS_COUNTS * TareCnt)

\* twos_comp(val, bits)
twos_comp(val, bits) ==
  IF ((val \div (2 ^ (bits - 1))) % 2) = 1 THEN val - (2 ^ bits) ELSE val

\* read_imu: the word of one axis as a reading
Reading(word) == twos_comp(word, 16) * TareCnt

\* read_imu, the correction of one axis other than accelerometer Z: applied
\* only to a reading above the threshold, on absolute values, sign restored
apply_cal(kind, v, ofs) ==
  IF OverMax(kind, AbsVal(v))
  THEN With(AbsVal(AbsVal(v) - AbsVal(ofs)), LAMBDA r :
         IF (v < 0) /\ (r > 0) THEN -r ELSE r)
  ELSE v

\* read_imu, the correction of accelerometer Z: 1 g is removed from both
\* absolute values before the test and added back after the correction
apply_cal_accZ(v, ofs) ==
  IF OverMax("acc", AbsVal(v) - ONE_G)
  THEN With(AbsVal((AbsVal(v) - ONE_G) - (AbsVal(ofs) - ONE_G)), LAMBDA r :
         (IF (v < 0) /\ (r > 0) THEN -r ELSE r) + ONE_G)
  ELSE v

\* read_imu(cal_f, dataList) for one sensor: the three readings of a sample
read_imu(kind, cal_f, dataList, C) ==
  With(<<Reading(dataList[1]), Reading(dataList[2]), Reading(dataList[3])>>, LAMBDA v :
    IF kind = "acc"
    THEN (IF cal_f /\ C.g_cal_acc_f
          THEN <<apply_cal("acc", v[1], C.g_accOfs[1]), apply_cal("acc", v[2], C.g_accOfs[2]),
                 apply_cal_accZ(v[3], C.g_accOfs[3])>>
          ELSE v)
    ELSE (IF cal_f /\ C.g_cal_gyr_f
          THEN <<apply_cal("gyr", v[1], C.g_gyrOfs[1]), apply_cal("gyr", v[2], C.g_gyrOfs[2]),
                 apply_cal("gyr", v[3], C.g_gyrOfs[3])>>
          ELSE v))

\* loop_imu(cnt, ..., use_cal, dataList_in): the first cnt samples of the
\* list read from the FIFO, as readings
loop_imu(cnt, kind, use_cal, dataList_in, C) ==
  [ii \in 1..cnt |-> read_imu(kind, use_cal, dataList_in[ii], C)]

\* the sums of calc_tare over one axis
RECURSIVE SumAxis(_, _, _)
SumAxis(list, axis, n) ==
  IF n = 0 THEN 0 ELSE SumAxis(list, axis, n - 1) + list[n][axis]

\* calc_tare: the averages of the uncorrected readings
tare_avg(cnt, kind, dataList_in, C) ==
  With(loop_imu(cnt, kind, FALSE, dataList_in, C), LAMBDA list :
    <<SumAxis(list, 1, cnt) \div cnt, SumAxis(list, 2, cnt) \div cnt,
      SumAxis(list, 3, cnt) \div cnt>>)

\* calc_tare with the Z offset of the accelerometer left as it was
calc_tare_z_kept(cnt, xlda_f, gda_f, dataList_in, C) ==
  IF (~xlda_f) /\ (~gda_f) THEN [err_f |-> TRUE, cal |-> C]
  ELSE With(IF xlda_f THEN tare_avg(cnt, "acc", dataList_in, C) ELSE C.g_accOfs, LAMBDA a :
         [err_f |-> FALSE,
          cal |-> [g_accOfs |-> IF xlda_f /\ ~(a[3] > (2 * ONE_G))
                                THEN <<a[1], a[2], C.g_accOfs[3]>> ELSE C.g_accOfs,
                   g_cal_acc_f |-> IF xlda_f THEN ~(a[3] > (2 * ONE_G)) ELSE C.g_cal_acc_f,
                   g_gyrOfs |-> IF gda_f THEN tare_avg(cnt, "gyr", dataList_in, C)
                                ELSE C.g_gyrOfs,
                   g_cal_gyr_f |-> IF gda_f THEN TRUE ELSE C.g_cal_gyr_f]])

\* calc_tare(cnt, xlda_f, gda_f, dataList_in): (any_err_f, the calibration
\* globals after the call).  The accelerometer averages are stored unless
\* zOfs > 2.0; the gyroscope averages are always stored.
calc_tare(cnt, xlda_f, gda_f, dataList_in, C) ==
  IF (~xlda_f) /\ (~gda_f) THEN [err_f |-> TRUE, cal |-> C]
  ELSE With(IF xlda_f THEN tare_avg(cnt, "acc", dataList_in, C) ELSE C.g_accOfs, LAMBDA a :
         [err_f |-> FALSE,
          cal |-> [g_accOfs |-> IF xlda_f /\ ~(a[3] > (2 * ONE_G)) THEN a ELSE C.g_accOfs,
                   g_cal_acc_f |-> IF xlda_f THEN ~(a[3] > (2 * ONE_G)) ELSE C.g_cal_acc_f,
                   g_gyrOfs |-> IF gda_f THEN tare_avg(cnt, "gyr", dataList_in, C)
                                ELSE C.g_gyrOfs,
                   g_cal_gyr_f |-> IF gda_f THEN TRUE ELSE C.g_cal_gyr_f]])

\* zero_crossings, the test of sample ii (counted from 0) of retList: the
\* first axis above the threshold whose next reading is above it too records
\* a detection.  X, Y and the gyroscope Z compare the next reading with its
\* sign; accelerometer Z compares | |z| - 1 | on the sample and | z - 1 | on
\* the next one.
zc_axis(kind, retList, ii, cnt, axis) ==
  IF (kind = "acc") /\ (axis = 3)
  THEN /\ OverMax("acc", AbsVal(AbsVal(retList[ii + 1][3]) - ONE_G))
       /\ (ii + 1) < cnt
       /\ OverMax("acc", AbsVal(retList[ii + 2][3] - ONE_G))
  ELSE /\ OverMax(kind, AbsVal(retList[ii + 1][axis]))
       /\ (ii + 1) < cnt
       /\ OverMax(kind, retList[ii + 2][axis])

zc_hit(kind, retList, ii, cnt) ==
  \E axis \in 1..3 : zc_axis(kind, retList, ii, cnt, axis)

\* zero_crossings, the while loop: detects holds ii+1 for every hit.  The
\* readings set to 0.0 or 1.0 under auto_zero are local names of the loop;
\* retList is returned as loop_imu built it.
RECURSIVE zc_detects(_, _, _, _)
zc_detects(kind, retList, ii, cnt) ==
  IF ii >= cnt THEN << >>
  ELSE (IF zc_hit(kind, retList, ii, cnt) THEN <<ii + 1>> ELSE << >>)
       \o zc_detects(kind, retList, ii + 1, cnt)

\* zero_crossings(cnt, xlda_f, gda_f, dataList_in): (err_f, detects, retList)
zero_crossings(cnt, xlda_f, gda_f, dataList_in, C) ==
  With(IF xlda_f THEN loop_imu(cnt, "acc", TRUE, dataList_in, C) ELSE << >>, LAMBDA accList :
  With(IF gda_f THEN loop_imu(cnt, "gyr", TRUE, dataList_in, C) ELSE << >>, LAMBDA gyrList :
    [err_f |-> FALSE,
     detects |-> (IF xlda_f THEN zc_detects("acc", accList, 0, cnt) ELSE << >>)
                 \o (IF gda_f THEN zc_detects("gyr", gyrList, 0, cnt) ELSE << >>),
     retList |-> IF gda_f THEN gyrList ELSE accList]))

\* do_acc and do_gyro, the end: the reading at the last detection, else the
\* last reading, is stored in g_acc_x/y/z or g_gyr_x/y/z for telemetry
published(z) ==
  IF Len(z.detects) > 0 THEN z.retList[z.detects[Len(z.detects)] + 1]
  ELSE z.retList[Len(z.retList)]

\* do_acc / do_gyro(tare_f, tare_cnt, data_cnt, loop_cnt=1): tareFeed and
\* dataFeed are the lists process_fifo returns to the two requests
do_motion(kind, tare_f, tare_cnt, data_cnt, tareFeed, dataFeed, useImu, C) ==
  IF ~useImu
  THEN [err_f |-> FALSE, detects |-> << >>, retList |-> << >>, cal |-> C, pub |-> << >>]
  ELSE With(IF tare_f
            THEN calc_tare(tare_cnt, kind = "acc", kind = "gyr", tareFeed, C).cal
            ELSE C, LAMBDA C2 :
       With(zero_crossings(data_cnt, kind = "acc", kind = "gyr", dataFeed, C2), LAMBDA z :
         [err_f |-> z.err_f, detects |-> z.detects, retList |-> z.retList,
          cal |-> C2, pub |-> published(z)]))

do_acc(tare_f, tare_cnt, data_cnt, tareFeed, dataFeed, useImu, C) ==
  do_motion("acc", tare_f, tare_cnt, data_cnt, tareFeed, dataFeed, useImu, C)

do_gyro(tare_f, tare_cnt, data_cnt, tareFeed, dataFeed, useImu, C) ==
  do_motion("gyr", tare_f, tare_cnt, data_cnt, tareFeed, dataFeed, useImu, C)

\* what the motion calls leave alone
MotionFrame ==
  UNCHANGED <<codec, mode, raised, g_time_source, g_time_epoch, g_nmea_time_f,
              g_rtc_save, g_rtc_init, g_time_NMEA_f, rtc, now, rates, mag, imu,
              USE_IMU, USE_MAG, shdw, uart0_out, spi_out, lastOp, lastLine, ret,
              clockSet, serviced>>

\* a call of calc_tare for one sensor, or with no sensor selected
call_calc_tare(Feeds) ==
  /\ call.fn \in {"none", "calc_tare"}
  /\ \E dataList_in \in Feeds, sel \in {<<TRUE, FALSE>>, <<FALSE, TRUE>>, <<FALSE, FALSE>>} :
       \E r \in {calc_tare(TareCnt, sel[1], sel[2], dataList_in, cal)} :
         /\ cal' = r.cal
         /\ call' = [fn |-> "calc_tare", xlda_f |-> sel[1], gda_f |-> sel[2],
                     dataList_in |-> dataList_in, before |-> cal, err_f |-> r.err_f]
  /\ MotionFrame

\* a call of do_acc or do_gyro, with or without tare
call_do_motion(fn, TareFeeds, DataFeeds) ==
  /\ call.fn = "none"
  /\ \E tare_f \in BOOLEAN, dataFeed \in DataFeeds :
       \E tareFeed \in (IF tare_f THEN TareFeeds ELSE {<< >>}) :
         \E r \in {IF fn = "do_acc"
                   THEN do_acc(tare_f, TareCnt, DataCnt, tareFeed, dataFeed, USE_IMU, cal)
                   ELSE do_gyro(tare_f, TareCnt, DataCnt, tareFeed, dataFeed, USE_IMU, cal)} :
           /\ cal' = r.cal
           /\ call' = [fn |-> fn, tare_f |-> tare_f, tareFeed |-> tareFeed,
                       dataFeed |-> dataFeed, before |-> cal, err_f |-> r.err_f,
                       detects |-> r.detects, retList |-> r.retList, pub |-> r.pub]
  /\ MotionFrame

call_do_acc(TareFeeds, DataFeeds) == call_do_motion("do_acc", TareFeeds, DataFeeds)
call_do_gyro(TareFeeds, DataFeeds) == call_do_motion("do_gyro", TareFeeds, DataFeeds)

\* samples: a word below both thresholds (20), one between them (164), one
\* above both (1000) and its negative (64536), 1 g (16393), 1.037 g (17000),
\* -1 g (49143) and the most negative word (32768)
TareSamples == {<<164, 20, 16393>>, <<1000, 64536, 32768>>}
DataSamples ==
  TareSamples \cup {<<0, 0, 16393>>, <<1000, 0, 17000>>, <<64536, 0, 49143>>, <<20, 0, 0>>}
TareFeeds == [1..TareCnt -> TareSamples]
DataFeeds == [1..DataCnt -> DataSamples]
NextMotion ==
  \/ call_calc_tare(TareFeeds)
  \/ call_do_acc(TareFeeds, DataFeeds)
  \/ call_do_gyro(TareFeeds, DataFeeds)
\* the boots that differ in what the motion calls read: the IMU found or not
InitMotion == Init /\ USE_MAG /\ (mode = 13)
SpecMotion == InitMotion /\ [][NextMotion]_vars

\* ---- motion detection ----
MotionCalls == {"do_acc", "do_gyro"}
KindOf(fn) == IF fn = "do_acc" THEN "acc" ELSE "gyr"
\* the baseline of a sensor: 1.0 g on accelerometer Z, 0 on every other axis
Baseline(kind) == IF kind = "acc" THEN <<0, 0, ONE_G>> ELSE <<0, 0, 0>>
\* the deviation of a reading from the baseline exceeds the threshold
Exceeds(kind, axis, v) == OverMax(kind, AbsVal(v - Baseline(kind)[axis]))
\* sample i (counted from 0) and the sample after it exceed on one axis
Confirmed(kind, retList, i) ==
  /\ (i + 2) <= Len(retList)
  /\ \E axis \in 1..3 : /\ Exceeds(kind, axis, retList[i + 1][axis])
                        /\ Exceeds(kind, axis, retList[i + 2][axis])

\* C27: every index in the detection list of zero_crossings is that of a
\* sample whose immediately following sample exceeds the threshold on the
\* same axis too
C27_DetectsAreConfirmed ==
  (call.fn \in MotionCalls) =>
    \A k \in 1..Len(call.detects) :
      Confirmed(KindOf(call.fn), call.retList, call.detects[k])

\* all samples of both requests are the same sample
ConstantInput ==
  \E s \in DataSamples : /\ \A i \in 1..Len(call.tareFeed) : call.tareFeed[i] = s
                         /\ \A i \in 1..Len(call.dataFeed) : call.dataFeed[i] = s

\* C28: tare followed by motion detection on a constant input that passes the
\* tare sanity check gives no detection and publishes the baseline
C28_ConstantInputGivesBaseline ==
  ((call.fn = "do_acc") /\ call.tare_f /\ (Len(call.retList) > 0)
     /\ ConstantInput /\ cal.g_cal_acc_f) =>
    /\ call.detects = << >>
    /\ call.pub = Baseline("acc")

\* C29: a published reading whose deviation from the baseline does not exceed
\* the threshold is the baseline itself
C29_QuietReadingsSnapToBaseline ==
  ((call.fn \in MotionCalls) /\ (Len(call.pub) > 0)) =>
    \A axis \in 1..3 :
      (~Exceeds(KindOf(call.fn), axis, call.pub[axis])) =>
        (call.pub[axis] = Baseline(KindOf(call.fn))[axis])

g_imu_cmdList ==
  {1, 4, 7, 8, 9, 10, 13, 16, 17, 18, 19, 20, 21, 22, 23, 27, 30, 32, 33, 34, 35,
   36, 37, 38, 39, 40, 41, 42, 43, 44, 45, 53, 58, 59, 86, 88, 91, 92, 102, 120, 121}

\* imu_cmd_check(datum): err_f
imu_cmd_check(datum) == datum \notin g_imu_cmdList

\* both chip selects high
CsIdle == [cs_mag |-> 1, cs_imu |-> 1]

\* write_spi, the first byte with w_mask 0x7f or r_mask 0x80 applied
spi_first(wr_ctl, b) == IF wr_ctl = "w" THEN b % 128 ELSE (b % 128) + 128

spi_ret(r, err_f, rd_bytes, cs, clocked) ==
  [raised |-> r, err_f |-> err_f, rd_bytes |-> rd_bytes, cs |-> cs, clocked |-> clocked]

\* write_spi(which, wr_ctl, wr_in) entered with the chip selects cs:
\* (err_f, rd_bytes), the chip selects at the exit and the bytes clocked
\* while a chip select was low.  A refused lock and an unknown device set
\* err_f and go on to the transfer; nothing catches a transfer that raises.
write_spi(which, wr_ctl, wr_in, cs, lockOk, xfer, reply) ==
  IF wr_ctl \notin {"w", "r"} THEN spi_ret(FALSE, TRUE, << >>, cs, << >>)
  ELSE IF (wr_ctl = "w") /\ (which = "IMU") /\ imu_cmd_check(spi_first(wr_ctl, wr_in[1]))
  THEN spi_ret(FALSE, TRUE, << >>, CsIdle, << >>)
  ELSE With([cs_mag |-> IF which = "MAG" THEN 0 ELSE 1,
             cs_imu |-> IF which = "IMU" THEN 0 ELSE 1], LAMBDA sel :
       IF xfer = "raise"
       THEN spi_ret(TRUE, (which \notin {"MAG", "IMU"}) \/ ~lockOk, << >>, sel, << >>)
       ELSE spi_ret(FALSE, (which \notin {"MAG", "IMU"}) \/ ~lockOk,
                    IF wr_ctl = "r" THEN Tail(reply) ELSE << >>,
                    CsIdle,
                    IF which \in {"MAG", "IMU"}
                    THEN <<spi_first(wr_ctl, wr_in[1])>> \o Tail(wr_in) ELSE << >>))

\* writeMax, the chip select theCS at the exit: raised for every frame, and
\* left low by a write that raises
writeMax_cs(theByteList, theCS, busOk) ==
  IF Len(theByteList) = 0 THEN theCS ELSE IF busOk THEN 1 ELSE 0

\* a call of write_spi with the chip selects high
call_write_spi(Devices, Modes, Requests) ==
  /\ call.fn = "none"
  /\ \E which \in Devices, wr_ctl \in Modes, wr_in \in Requests, lockOk \in BOOLEAN,
        xfer \in {"ok", "raise"} :
       \E r \in {write_spi(which, wr_ctl, wr_in, CsIdle, lockOk, xfer,
                           [i \in 1..Len(wr_in) |-> 0])} :
         call' = [fn |-> "write_spi", which |-> which, wr_ctl |-> wr_ctl, wr_in |-> wr_in,
                  lockOk |-> lockOk, xfer |-> xfer, raised |-> r.raised, err_f |-> r.err_f,
                  rd_bytes |-> r.rd_bytes, cs |-> r.cs, clocked |-> r.clocked]
  /\ UNCHANGED cal
  /\ MotionFrame

\* a call of writeMax with the chip select high
call_writeMax(Frames) ==
  /\ call.fn = "none"
  /\ \E theByteList \in Frames, busOk \in BOOLEAN :
       \E w \in {writeMax("MAX_MISC", theByteList, busOk)} :
         call' = [fn |-> "writeMax", theByteList |-> theByteList, busOk |-> busOk,
                  raised |-> w.raised, writes |-> w.writes,
                  theCS |-> writeMax_cs(theByteList, 1, busOk)]
  /\ UNCHANGED cal
  /\ MotionFrame

SpiDevices == {"MAG", "IMU", "XYZ"}
SpiModes == {"w", "r", "x"}
\* CTRL1_XL with a value, the reserved register 2, the identity register
SpiRequests == {<<16, 96>>, <<2, 96>>, <<15, 0>>}
MaxFrames == {<< >>, << <<3, 1>> >>, << <<3, 1>>, <<4, 0>> >>}
NextBus == call_write_spi(SpiDevices, SpiModes, SpiRequests) \/ call_writeMax(MaxFrames)
SpecBus == Init /\ [][NextBus]_vars

\* C31: every bus transaction ends with its chip select high
C31_ChipSelectReleased ==
  /\ (call.fn = "write_spi") => (call.cs = CsIdle)
  /\ (call.fn = "writeMax") => (call.theCS = 1)

\* the failures of a transaction that the caller's arguments or the lock cause
SpiFailure ==
  \/ call.wr_ctl \notin {"w", "r"}
  \/ call.which \notin {"MAG", "IMU"}
  \/ (call.wr_ctl = "w") /\ (call.which = "IMU") /\ imu_cmd_check(call.wr_in[1] % 128)
  \/ ~call.lockOk

\* C32: a failed transaction returns the failure flag and no data, clocks no
\* byte to a device and does not raise
C32_FailureReturnsNoData ==
  ((call.fn = "write_spi") /\ SpiFailure) =>
    /\ ~call.raised
    /\ call.err_f
    /\ call.rd_bytes = << >>
    /\ call.clocked = << >>

(***************************************************************************)
(* process_fifo, step by step.  The call in progress is held in call: pc   *)
(* is "status" before a fifo_status read and "entry" inside the inner      *)
(* loop; batch are the entries the status read announced, each given by    *)
(* what reading it yields: a stream, "other" for a tag decode_fifo_tag     *)
(* does not know, "err" for a read that fails, "raise" for a transfer that *)
(* raises.                                                                 *)
(***************************************************************************)

MaxRounds == 2
MaxBatch == 2
MaxPolls == 2

\* decode_fifo_tag: the tags 2, 1 and 3
Streams == {"acc", "gyr", "tim"}
EntryKinds == Streams \cup {"other", "err", "raise"}

\* process_fifo(count, acc_rq_f, gyr_rq_f, tim_rq_f) up to the outer loop;
\* delivered records the streams read since the round began
pf_start(count, rq) ==
  [fn |-> "process_fifo", pc |-> "status", count |-> count, rq |-> rq, any |-> {},
   delivered |-> {}, jj |-> 0, batch |-> << >>, polls |-> 0,
   len |-> [s \in Streams |-> 0]]

\* the outer loop with a status read that ends the call when it fails
pf_status_giveup(P, err_f, tags) ==
  IF err_f THEN [P EXCEPT !.polls = @ + 1, !.pc = "done"]
  ELSE IF Len(tags) = 0 THEN [P EXCEPT !.polls = @ + 1]
  ELSE [P EXCEPT !.polls = @ + 1, !.batch = tags, !.pc = "entry"]

\* the outer loop, one fifo_status read: an error or no entry leads to the
\* next read, entries lead into the inner loop
pf_status(P, err_f, tags) ==
  IF err_f \/ (Len(tags) = 0) THEN [P EXCEPT !.polls = @ + 1]
  ELSE [P EXCEPT !.polls = @ + 1, !.batch = tags, !.pc = "entry"]

\* the end of a round: the flags are cleared, the round counted, and the
\* call is over when count rounds are done
pf_round_done(P, len1) ==
  [P EXCEPT !.len = len1, !.any = {}, !.delivered = {}, !.batch = << >>,
            !.jj = @ + 1, !.pc = IF (P.jj + 1) = P.count THEN "done" ELSE "status"]

\* the inner loop going on with the next entry, or back to the status read
pf_next_entry(P, len1, any1, got) ==
  [P EXCEPT !.len = len1, !.any = any1, !.delivered = @ \cup got, !.batch = Tail(@),
            !.pc = IF Len(P.batch) > 1 THEN "entry" ELSE "status"]

\* the inner loop with the flags of the streams not requested left unset
pf_entry_unset(P) ==
  With(IF P.batch[1] \in Streams THEN {P.batch[1]} ELSE {}, LAMBDA got :
  With([s \in Streams |-> IF s \in got THEN P.len[s] + 1 ELSE P.len[s]], LAMBDA len1 :
    IF (P.any \cup got) = Streams THEN pf_round_done(P, len1)
    ELSE pf_next_entry(P, len1, P.any \cup got, got)))

\* the inner loop with the flags kept when a round ends
pf_entry_sticky(P) ==
  With(IF P.batch[1] \in Streams THEN {P.batch[1]} ELSE {}, LAMBDA got :
  With([s \in Streams |-> IF s \in got THEN P.len[s] + 1 ELSE P.len[s]], LAMBDA len1 :
    IF (P.any \cup got \cup (Streams \ P.rq)) = Streams
    THEN [pf_round_done(P, len1) EXCEPT !.any = Streams]
    ELSE pf_next_entry(P, len1, P.any \cup got \cup (Streams \ P.rq), got)))

\* the inner loop, one entry: a tag and data read without error are appended
\* to the list of their stream and set its flag, the flags of the streams not
\* requested are set, and the round ends when all three flags are set
pf_entry(P) ==
  With(IF P.batch[1] \in Streams THEN {P.batch[1]} ELSE {}, LAMBDA got :
  With([s \in Streams |-> IF s \in got THEN P.len[s] + 1 ELSE P.len[s]], LAMBDA len1 :
    IF (P.any \cup got \cup (Streams \ P.rq)) = Streams THEN pf_round_done(P, len1)
    ELSE pf_next_entry(P, len1, P.any \cup got \cup (Streams \ P.rq), got)))

\* process_fifo is called
fifo_begin(Counts, Requests) ==
  /\ call.fn = "none"
  /\ \E count \in Counts, rq \in Requests : call' = pf_start(count, rq)
  /\ UNCHANGED cal
  /\ MotionFrame

\* one status read of the call in progress; a transfer that raises ends the
\* call without a return
fifo_status(Batches) ==
  /\ call.fn = "process_fifo"
  /\ call.pc = "status"
  /\ call.polls < MaxPolls
  /\ \/ call' = pf_status(call, TRUE, << >>)
     \/ \E tags \in Batches : call' = pf_status(call, FALSE, tags)
     \/ call' = [call EXCEPT !.pc = "raised"]
  /\ UNCHANGED cal
  /\ MotionFrame

\* one entry of the inner loop
fifo_entry ==
  /\ call.fn = "process_fifo"
  /\ call.pc = "entry"
  /\ call' = IF call.batch[1] = "raise" THEN [call EXCEPT !.pc = "raised"]
              ELSE pf_entry(call)
  /\ UNCHANGED cal
  /\ MotionFrame

\* the requests of do_acc, do_gyro, get_imu_tp and the fifo test mode
FifoRequests == {{"acc"}, {"gyr"}, {"tim"}, {"acc", "gyr"}}
FifoBatches == UNION {[1..n -> EntryKinds] : n \in 0..MaxBatch}
NextFifo == fifo_begin(1..MaxRounds, FifoRequests) \/ fifo_status(FifoBatches) \/ fifo_entry
SpecFifo == InitMotion /\ [][NextFifo]_vars

\* C33: in the inner loop of process_fifo a round ends with an entry exactly
\* when every requested stream has delivered an entry since the round began,
\* whatever the streams not requested delivered
C33_UnrequestedNeverBlocks ==
  [][((call.fn = "process_fifo") /\ (call.pc = "entry")) =>
       ((call'.jj = call.jj + 1) <=>
          (call.rq \subseteq (call.delivered \cup {call.batch[1]})))]_vars
\* a round of a call for the accelerometer alone ended without any entry of
\* the gyroscope or the temperature
C33_Witness ==
  /\ call.fn = "process_fifo"
  /\ call.rq = {"acc"}
  /\ call.jj = 1
  /\ call.len["acc"] = 1 /\ call.len["gyr"] = 0 /\ call.len["tim"] = 0

\* C34: process_fifo returns only with count rounds done, and a status read
\* that fails or announces no entry leads to another status read
C34_ReturnsOnlyAfterRounds ==
  /\ []((call.fn = "process_fifo" /\ call.pc = "done") => (call.jj = call.count))
  /\ [][((call.fn = "process_fifo") /\ (call.pc = "status")) =>
         (call'.pc # "done")]_vars
\* the sensor delivered nothing in any status read and the call still polls
C34_Witness ==
  /\ call.fn = "process_fifo"
  /\ call.pc = "status"
  /\ call.polls = MaxPolls
  /\ call.jj = 0
  /\ \A s \in Streams : call.len[s] = 0

\* C36: process_fifo(count) returns with at least count entries in the list
\* of every requested stream
C36_ReturnedListsLongEnough ==
  ((call.fn = "process_fifo") /\ (call.pc = "done")) =>
    \A s \in call.rq : call.len[s] >= call.count
\* a call for two rounds of accelerometer and gyroscope entries returned
C36_Witness ==
  /\ call.fn = "process_fifo"
  /\ call.pc = "done"
  /\ call.count = MaxRounds
  /\ call.rq = {"acc", "gyr"}
  /\ call.len["acc"] >= MaxRounds /\ call.len["gyr"] >= MaxRounds

\* C39: whenever two consecutive samples exceed the threshold in magnitude on
\* the same axis, with either sign, zero_crossings records a detection
C39_ConfirmationSignSymmetric ==
  (call.fn \in MotionCalls) =>
    \A i \in 0..(Len(call.retList) - 2) :
      Confirmed(KindOf(call.fn), call.retList, i) => (Len(call.detects) > 0)

\* the writes to register reg in the bus log all carry the value val, and
\* there is one
WrittenAs(log, reg, val) ==
  /\ \E k \in 1..Len(log) : log[k].bytes[1] = reg
  /\ \A k \in 1..Len(log) : (log[k].bytes[1] = reg) => (log[k].bytes[2] = val)

\* C37: after a successful IMU set command the power-mode registers carry the
\* three flags of the command in the order given (CTRL6_C bit 4 cleared for
\* accelerometer high-performance, CTRL5_C bit 7 for accelerometer
\* ultra-low-power, CTRL7_G bit 7 for gyroscope low-power), and the stored
\* configuration a query reports has the same flags
C37_PowerBitsAsCommanded ==
  [][\A c \in ImuSetCases :
       ((lastOp' \in ServiceOps) /\ (lastLine' = c.line) /\ USE_IMU
          /\ (~raised') /\ (ret'.err_code = 0))
       => /\ WrittenAs(spi_out', CTRL6_C, IF c.flags[1] THEN 0 ELSE 16)
          /\ WrittenAs(spi_out', CTRL5_C, IF c.flags[2] THEN 128 ELSE 0)
          /\ WrittenAs(spi_out', CTRL7_G, IF c.flags[3] THEN 128 ELSE 0)
          /\ imu'.g_imu_acc_hipf = c.flags[1]
          /\ imu'.g_imu_acc_ulp = c.flags[2]
          /\ imu'.g_imu_gyr_lp = c.flags[3]]_vars

(***************************************************************************)
(* forward_nmea, byte by byte.  The call in progress is held in call: rx   *)
(* are the bytes waiting on uart1, feed the bytes the receiver has still   *)
(* to send (rep is a byte it goes on sending for ever after them, "" for   *)
(* none), uart0 what was written to the host.  elapsed is time.time() -    *)
(* baseSec, kept up to tmoSec + 1, all the tests of the function can tell. *)
(***************************************************************************)

TmoSec == 2
MaxMsgCnt == 2
MaxRx == 7

\* what the receiver sends: one sentence, two sentences, a sentence left
\* after one digit of its checksum and followed by a sentence, bytes without
\* a "$" for ever, and a sentence that stops before its "*".  valid are the
\* sentences sent whole with a good checksum.
NmeaFeeds ==
  {[bytes |-> "$A*41\r\n", rep |-> "", valid |-> {"$A*41\r\n"}],
   [bytes |-> "$A*41\r\n$B*42\r\n", rep |-> "", valid |-> {"$A*41\r\n", "$B*42\r\n"}],
   [bytes |-> "$A*4$B*42\r\n", rep |-> "", valid |-> {"$B*42\r\n"}],
   [bytes |-> "", rep |-> "x", valid |-> {}],
   [bytes |-> "$Axx", rep |-> "", valid |-> {}]}

\* the strings the inner loop can hand to eval_packet, every stretch of a
\* feed that begins with "$", and the error code eval_packet gives each
FwdStrings ==
  UNION {{Slice(f.bytes, a, b) : a \in 0..Len(f.bytes), b \in 1..Len(f.bytes)} : f \in NmeaFeeds}
fwd_err_code == [s \in FwdStrings \ {""} |-> eval_packet(s, FALSE).err_code]

\* forward_nmea(tmoSec, maxMsgCnt) up to the outer loop
fwd_start(tmoSec, maxMsgCnt, feed, rx, uart0) ==
  [fn |-> "forward_nmea", pc |-> "inner", tmoSec |-> tmoSec, maxMsgCnt |-> maxMsgCnt,
   start_f |-> FALSE, cksum_f |-> FALSE, ii |-> 0, nmea_string |-> "", elapsed |-> 0,
   msg_cnt |-> 0, err_cnt |-> 0, tmo_f |-> FALSE, ret |-> << >>,
   feed |-> feed, rx |-> rx, uart0 |-> uart0]

\* the return at the end of the function
fwd_return(F) == [F EXCEPT !.pc = "returned", !.ret = <<FALSE, F.msg_cnt, F.err_cnt>>]

\* the outer loop after the sentence was processed: the timeout test, the
\* message count test, and the loop condition with the locals set again
fwd_outer_end(F) ==
  IF F.elapsed > F.tmoSec
  THEN fwd_return([F EXCEPT !.tmo_f = @ \/ (F.msg_cnt = 0)])
  ELSE IF F.msg_cnt = F.maxMsgCnt THEN fwd_return(F)
  ELSE IF F.tmo_f THEN fwd_return(F)
  ELSE [F EXCEPT !.start_f = FALSE, !.cksum_f = FALSE, !.ii = 0, !.nmea_string = ""]

\* the outer loop after the inner loop was left: a complete sentence goes to
\* eval_packet and is written to the host when it passes
fwd_outer(F, end_f) ==
  IF F.start_f /\ end_f
  THEN IF fwd_err_code[F.nmea_string] # 0
       THEN fwd_outer_end([F EXCEPT !.start_f = FALSE, !.cksum_f = FALSE,
                                    !.err_cnt = @ + 1])
       ELSE fwd_outer_end([F EXCEPT !.start_f = FALSE, !.cksum_f = FALSE,
                                    !.msg_cnt = @ + 1,
                                    !.uart0 = Append(@, F.nmea_string)])
  ELSE fwd_outer_end(F)

\* the timeout test at the end of the inner loop
fwd_inner_end(F) ==
  IF F.elapsed > F.tmoSec THEN fwd_outer([F EXCEPT !.tmo_f = @ \/ F.start_f], FALSE)
  ELSE F

\* the inner loop, one byte read from uart1
fwd_char(F, theChar) ==
  IF ~F.start_f
  THEN IF theChar = "$"
       THEN fwd_inner_end([F EXCEPT !.nmea_string = "$", !.start_f = TRUE, !.elapsed = 0])
       ELSE F
  ELSE IF theChar = "$" THEN [F EXCEPT !.nmea_string = "$", !.elapsed = 0]
  ELSE IF ~F.cksum_f
  THEN fwd_inner_end([F EXCEPT !.nmea_string = @ \o theChar,
                               !.cksum_f = (theChar = "*"),
                               !.ii = IF theChar = "*" THEN 0 ELSE @])
  ELSE IF (F.ii + 1) >= 4
  THEN fwd_outer([F EXCEPT !.nmea_string = @ \o theChar, !.ii = 0, !.elapsed = 0], TRUE)
  ELSE fwd_inner_end([F EXCEPT !.nmea_string = @ \o theChar, !.ii = @ + 1])

\* forward_nmea is called, for the first time or again after it returned
fwd_begin(Feeds, Limits) ==
  /\ \/ /\ call.fn = "none"
        /\ \E feed \in Feeds, maxMsgCnt \in Limits :
             call' = fwd_start(TmoSec, maxMsgCnt, feed, "", << >>)
     \/ /\ call.fn = "forward_nmea"
        /\ call.pc = "returned"
        /\ call' = fwd_start(call.tmoSec, call.maxMsgCnt, call.feed, call.rx, call.uart0)
  /\ UNCHANGED cal
  /\ MotionFrame

\* one pass of the inner loop: the return when no byte is waiting, else the
\* byte is read and handled
fwd_step ==
  /\ call.fn = "forward_nmea"
  /\ call.pc = "inner"
  /\ call' = IF Len(call.rx) = 0
             THEN [call EXCEPT !.pc = "returned", !.ret = <<FALSE, 0, 0>>]
             ELSE fwd_char([call EXCEPT !.rx = Slice(@, 1, Len(@))], Ch(call.rx, 1))
  /\ UNCHANGED cal
  /\ MotionFrame

\* a second passes during the call
fwd_tick ==
  /\ call.fn = "forward_nmea"
  /\ call.pc = "inner"
  /\ call.elapsed <= call.tmoSec
  /\ call' = [call EXCEPT !.elapsed = @ + 1]
  /\ UNCHANGED cal
  /\ MotionFrame

\* the receiver sends its next byte
uart1_rx ==
  /\ call.fn = "forward_nmea"
  /\ Len(call.rx) < MaxRx
  /\ \/ /\ Len(call.feed.bytes) > 0
        /\ call' = [call EXCEPT !.rx = @ \o Ch(call.feed.bytes, 1),
                                !.feed.bytes = Slice(@, 1, Len(@))]
     \/ /\ Len(call.feed.bytes) = 0
        /\ call.feed.rep # ""
        /\ call' = [call EXCEPT !.rx = @ \o call.feed.rep]
  /\ UNCHANGED cal
  /\ MotionFrame

NextNmea == fwd_begin(NmeaFeeds, 1..MaxMsgCnt) \/ fwd_step \/ fwd_tick \/ uart1_rx
SpecNmea == InitMotion /\ [][NextNmea]_vars
\* the function runs on, the loop calls it again, the receiver goes on
\* sending and time passes
SpecNmeaFair ==
  /\ SpecNmea
  /\ WF_vars(fwd_step)
  /\ WF_vars(fwd_begin(NmeaFeeds, 1..MaxMsgCnt))
  /\ WF_vars(uart1_rx)
  /\ WF_vars(fwd_tick)

\* C35: every invocation of forward_nmea returns
C35_EveryInvocationReturns ==
  ((call.fn = "forward_nmea") /\ (call.pc = "inner")) ~>
    ((call.fn = "forward_nmea") /\ (call.pc = "returned"))

\* C40: every sentence the receiver sent whole and with a good checksum is
\* eventually written to the host
C40_ValidSentenceForwarded ==
  (call.fn = "forward_nmea") ~>
    ((call.fn = "forward_nmea") /\
       (\A s \in call.feed.valid : \E k \in 1..Len(call.uart0) : call.uart0[k] = s))

(***************************************************************************)
(* The production loop, pass by pass.  The loop in progress is held in     *)
(* call: since is supervisor.ticks_ms() - start_time, kept up to the 600   *)
(* the loop compares it with; ublox are the bytes waiting on uart1 ("" for *)
(* none), waiting the lines waiting on uart0; sent and answered count the  *)
(* lines the host sent and the lines the loop answered.                    *)
(***************************************************************************)

WindowMs == 600
TickMs == 300
MaxHostLines == 2

\* the marker sentences written around relayed receiver data
gps_start == add_cksum("$PGPS*").packet_out \o "\r\n"
gps_end == add_cksum("$PGPN*").packet_out \o "\r\n"

\* the queries the host sends and what the receiver sends
ProdLines == {"$PMITR?*6D", "$PMITTP?*3B"}
ProdSentence == "$GNRMC,,V,,,,,,,,,,N,V*37\r\n"

\* the globals after boot with both sensors found
BootGlobals ==
  [g_time_source |-> TSRC_GNSS, g_time_epoch |-> TEPOCH_NMEA, g_nmea_time_f |-> TRUE,
   rtc |-> BootClock, g_rtc_init |-> FALSE,
   rates |-> [g_telem_updr |-> TELEM_UPD_DEF, g_mag_tupdr |-> MAG_UPD_DEF,
              g_imu_updr |-> IMU_UPD_DEF, g_telem_time |-> None,
              g_mag_time |-> None, g_imu_time |-> None],
   mag |-> [g_mag_ccr |-> MAG_CCR_DEF, g_mag_iupdr |-> MAG_UPDR_DEF],
   imu |-> boot_imu(ImuModuleLevel, TRUE, TRUE, TRUE).imu,
   shdw |-> ShadowDefaults]

\* the branch of the production loop for each query on the globals after boot
prod_boot_h == [text \in ProdLines |-> dispatch(text \o "\r\n", BootGlobals, TRUE, TRUE)]
prod_boot_out ==
  [text \in ProdLines |-> mode13_out(text \o "\r\n", prod_boot_h[text], ShadowDefaults)]

\* the if/elif chain of the production loop for the line read and the text it
\* writes (the values on the globals after boot are kept in the two tables)
prod_service(text, G, useImu) ==
  IF (G = BootGlobals) /\ useImu /\ (text \in ProdLines)
  THEN [h |-> prod_boot_h[text], out |-> prod_boot_out[text]]
  ELSE [h |-> dispatch(text \o "\r\n", G, useImu, TRUE),
        out |-> mode13_out(text \o "\r\n", dispatch(text \o "\r\n", G, useImu, TRUE), G.shdw)]

\* run_mode(13) reaches its loop; the tare and the first readings before it
\* may have taken less or more than the window
prod_enter ==
  /\ call.fn = "none"
  /\ mode = 13
  /\ ~raised
  /\ \E since \in {0, WindowMs} :
       call' = [fn |-> "run_mode_13", since |-> since, ublox |-> "", waiting |-> << >>,
                sent |-> 0, answered |-> 0]
  /\ UNCHANGED cal
  /\ MotionFrame

\* one pass of the while loop: receiver data is relayed between the markers
\* and restarts the window; inside the window one line is read from the host
\* channel and serviced
prod_pass ==
  /\ call.fn = "run_mode_13"
  /\ ~raised
  /\ \E relay \in {IF call.ublox # "" THEN <<gps_start, call.ublox, gps_end>> ELSE << >>} :
     \E since \in {IF call.ublox # "" THEN 0 ELSE call.since} :
       IF (since < WindowMs) /\ (Len(call.waiting) > 0)
       THEN \E a \in {prod_service(Head(call.waiting), Globals, USE_IMU)} :
              /\ CommitVars("mode13", Head(call.waiting), a.h, relay \o a.out, 1)
              /\ call' = [call EXCEPT !.since = since, !.ublox = "", !.waiting = Tail(@),
                                      !.answered = IF Len(a.out) > 0 THEN @ + 1 ELSE @]
              /\ UNCHANGED <<cal, codec, mode, g_rtc_save, g_time_NMEA_f, now,
                             USE_IMU, USE_MAG>>
       ELSE /\ call' = [call EXCEPT !.since = since, !.ublox = ""]
            /\ uart0_out' = IF Len(relay) > 0 THEN relay ELSE uart0_out
            /\ lastOp' = IF Len(relay) > 0 THEN "relay" ELSE lastOp
            /\ UNCHANGED <<cal, codec, mode, raised, g_time_source, g_time_epoch,
                           g_nmea_time_f, g_rtc_save, g_rtc_init, g_time_NMEA_f, rtc, now,
                           rates, mag, imu, USE_IMU, USE_MAG, shdw, spi_out, lastLine, ret,
                           clockSet, serviced>>

\* time passes
prod_tick ==
  /\ call.fn = "run_mode_13"
  /\ call.since < WindowMs
  /\ call' = [call EXCEPT !.since = @ + TickMs]
  /\ UNCHANGED cal
  /\ MotionFrame

\* the host sends a command line
host_sends(Lines) ==
  /\ call.fn = "run_mode_13"
  /\ call.sent < MaxHostLines
  /\ \E text \in Lines :
       call' = [call EXCEPT !.waiting = Append(@, text), !.sent = @ + 1]
  /\ UNCHANGED cal
  /\ MotionFrame

\* the receiver sends a sentence
ublox_sends ==
  /\ call.fn = "run_mode_13"
  /\ call.ublox = ""
  /\ call' = [call EXCEPT !.ublox = ProdSentence]
  /\ UNCHANGED cal
  /\ MotionFrame

NextProd == prod_enter \/ prod_pass \/ prod_tick \/ host_sends(ProdLines) \/ ublox_sends
\* my_main found both sensors and runs run_mode(13)
InitProd == InitSensorsFound /\ (mode = 13)
SpecProd == InitProd /\ [][NextProd]_vars
\* the loop runs on and time passes; the receiver and the host send or do not
SpecProdFair == SpecProd /\ WF_vars(prod_pass) /\ WF_vars(prod_tick)

\* C38: in the production loop every command line the host sent is
\* eventually serviced and answered
C38_EveryLineAnswered ==
  ((call.fn = "run_mode_13") /\ (Len(call.waiting) > 0)) ~>
    ((call.fn = "run_mode_13") /\ (call.answered = call.sent))

====
